---------------------------- MODULE Spec2Model ----------------------------
(***************************************************************************)
(* Product-area classification and source-reference extraction of          *)
(* src/app/server.py: detect_product_area and extract_sources, over texts   *)
(* that are TLA+ strings, with the regular expressions of the rule table    *)
(* and of the source-type table matched character by character; the tables  *)
(* as loaded at import, and calls from several request threads.             *)
(***************************************************************************)
EXTENDS Integers, Sequences, FiniteSets, TLC

VARIABLES text, area, sources, tables, frames, sync, watch, metaapi, chat, provider, bulk

vars == <<text, area, sources, tables, frames, sync, watch, metaapi, chat, provider, bulk>>

-----------------------------------------------------------------------------
(* Characters and strings                                                   *)

\* Python's None
None == "None"

\* the value of a result slot before the call has returned
Pending == "pending"

Ch(s, i) == SubSeq(s, i, i)

Chars(s) == {Ch(s, i) : i \in 1..Len(s)}

LowerLetters == "abcdefghijklmnopqrstuvwxyz"

UpperLetters == "ABCDEFGHIJKLMNOPQRSTUVWXYZ"

Digit == Chars("0123456789")

\* \w of an re pattern
Word == Chars(LowerLetters) \cup Chars(UpperLetters) \cup Digit \cup {"_"}

\* \s of an re pattern
Space == {" ", "\t", "\n", "\r", "\f"}

\* the character ` (a string that holds it must also hold a ' after it)
Backtick == Ch("`'", 1)

Punct == Chars("-#[]()/:.,&?%+=*>~!|") \cup {Backtick}

\* the characters a text of the model is made of
Alphabet == Word \cup Space \cup Punct

\* . of an re pattern (no DOTALL flag is used)
Dot == Alphabet \ {"\n"}

LowerOf == [i \in 1..Len(UpperLetters) |-> Ch(LowerLetters, i)]

UpperIndex(c) == CHOOSE i \in 1..Len(UpperLetters) : Ch(UpperLetters, i) = c

\* str.lower() of one character
LowerCh(c) == IF c \in Chars(UpperLetters) THEN LowerOf[UpperIndex(c)] ELSE c

RECURSIVE CatRange(_, _, _)
\* the strings pieces[lo], ..., pieces[hi] joined (halving, to keep the nesting flat)
CatRange(pieces, lo, hi) ==
    IF lo > hi THEN ""
    ELSE IF lo = hi THEN pieces[lo]
    ELSE LET mid == (lo + hi) \div 2
         IN  CatRange(pieces, lo, mid) \o CatRange(pieces, mid + 1, hi)

\* "".join(pieces)
Cat(pieces) == CatRange(pieces, 1, Len(pieces))

\* the text as a pattern compiled with re.IGNORECASE reads it
Lower(s) == Cat([i \in 1..Len(s) |-> LowerCh(Ch(s, i))])

\* s1 in s2
Contains(s2, s1) ==
    \E i \in 1..(Len(s2) - Len(s1) + 1) : SubSeq(s2, i, i + Len(s1) - 1) = s1

Max(S) == CHOOSE x \in S : \A y \in S : y <= x

Min(S) == CHOOSE x \in S : \A y \in S : x <= y

-----------------------------------------------------------------------------
(* Regular expressions: a pattern is a sequence of atoms                    *)

\* a literal string
L(s) == [k |-> "lit", s |-> s]

\* \b
B == [k |-> "b"]

\* a character class repeated lo or more times (greedy): * + {lo,}
AtLeast(cs, lo) == [k |-> "rep", cs |-> cs, lo |-> lo, bounded |-> FALSE, hi |-> lo]

\* a character class repeated lo to hi times: [..] ? {lo,hi}
Between(cs, lo, hi) == [k |-> "rep", cs |-> cs, lo |-> lo, bounded |-> TRUE, hi |-> hi]

\* (a|b|...)
Alt(alts) == [k |-> "alt", alts |-> alts]

IsWordAt(t, p) == p >= 1 /\ p <= Len(t) /\ Ch(t, p) \in Word

\* the position after the longest run of characters of cs that starts at p
RunEnd(t, p, cs) ==
    Min({q \in p..(Len(t) + 1) : q > Len(t) \/ Ch(t, q) \notin cs})

RECURSIVE EndsFrom(_, _, _, _)
RECURSIVE Step(_, _, _)

\* the positions the atom can end at when it starts at a position of S
\* (a position is the index of the next character to read)
Step(a, t, S) ==
    CASE a.k = "lit" ->
           {p + Len(a.s) : p \in {q \in S : q + Len(a.s) - 1 <= Len(t)
                                            /\ SubSeq(t, q, q + Len(a.s) - 1) = a.s}}
      [] a.k = "b"   -> {p \in S : IsWordAt(t, p - 1) # IsWordAt(t, p)}
      [] a.k = "rep" ->
           UNION {LET e  == RunEnd(t, p, a.cs)
                      top == IF a.bounded /\ p + a.hi < e THEN p + a.hi ELSE e
                  IN  (p + a.lo)..top : p \in S}
      [] a.k = "alt" -> UNION {EndsFrom(a.alts[j], t, 1, S) : j \in 1..Len(a.alts)}
      [] a.k = "eos" -> {p \in S : p = Len(t) + 1 \/ (p = Len(t) /\ Ch(t, p) = "\n")}

\* the positions atoms i.. of the pattern can end at, started at a position of S
EndsFrom(re, t, i, S) ==
    IF S = {} \/ i > Len(re) THEN S
    ELSE EndsFrom(re, t, i + 1, Step(re[i], t, S))

\* the end positions of the matches of re that start at p
Ends(re, t, p) == EndsFrom(re, t, 1, {p})

\* pattern.search(t) is not None
Search(re, t) == EndsFrom(re, t, 1, 1..(Len(t) + 1)) # {}

-----------------------------------------------------------------------------
(* Product-area taxonomy and classifier                                     *)

PRODUCT_AREA_GROUPS ==
    [cloud_security |->
        [label |-> "Cloud Security", slack |-> "#support-cloud-security",
         areas |-> <<"cspm", "vm", "ciem">>],
     code_security |->
        [label |-> "Code Security", slack |-> "#support-code-security",
         areas |-> <<"sast", "sca", "iast">>],
     threat_management |->
        [label |-> "Threat Management", slack |-> "#support-security-threats",
         areas |-> <<"siem", "workload_protection", "aap">>]]

\* (area_key, display_label, group_key, keyword_patterns), in table order
PRODUCT_AREA_RULES ==
  <<
    [key |-> "siem", label |-> "Cloud SIEM", group |-> "threat_management", patterns |-> <<
        \* r"\bcloud\s*siem\b"
        <<B, L("cloud"), AtLeast(Space, 0), L("siem"), B>>,
        \* r"\bsiem\b"
        <<B, L("siem"), B>>,
        \* r"\bdetection\s*rule"
        <<B, L("detection"), AtLeast(Space, 0), L("rule")>>,
        \* r"\bsecurity\s*signal"
        <<B, L("security"), AtLeast(Space, 0), L("signal")>>,
        \* r"\bcontent\s*pack"
        <<B, L("content"), AtLeast(Space, 0), L("pack")>>,
        \* r"\blog\s*detection"
        <<B, L("log"), AtLeast(Space, 0), L("detection")>>,
        \* r"\bthreat\s*intel"
        <<B, L("threat"), AtLeast(Space, 0), L("intel")>>
    >>],
    [key |-> "aap", label |-> "AAP", group |-> "threat_management", patterns |-> <<
        \* r"\baap\b"
        <<B, L("aap"), B>>,
        \* r"\bappsec\b"
        <<B, L("appsec"), B>>,
        \* r"\basm\b"
        <<B, L("asm"), B>>,
        \* r"\bwaf\b"
        <<B, L("waf"), B>>,
        \* r"\bapi\s*security\b"
        <<B, L("api"), AtLeast(Space, 0), L("security"), B>>,
        \* r"\bin[- ]app\s*waf\b"
        <<B, L("in"), Between({"-", " "}, 1, 1), L("app"), AtLeast(Space, 0), L("waf"), B>>,
        \* r"\bip\s*block"
        <<B, L("ip"), AtLeast(Space, 0), L("block")>>,
        \* r"\bpasslist\b"
        <<B, L("passlist"), B>>,
        \* r"\battack\s*attempt"
        <<B, L("attack"), AtLeast(Space, 0), L("attempt")>>,
        \* r"\bapplication[- ]security\b"
        <<B, L("application"), Between({"-", " "}, 1, 1), L("security"), B>>,
        \* r"\bapp\s*(and|&)\s*api\s*protect"
        <<B, L("app"), AtLeast(Space, 0), Alt(<<<<L("and")>>, <<L("&")>>>>), AtLeast(Space, 0), L("api"), AtLeast(Space, 0), L("protect")>>,
        \* r"\bsecurity\s*trace"
        <<B, L("security"), AtLeast(Space, 0), L("trace")>>,
        \* r"\bphp.*(helper|sidecar)\b"
        <<B, L("php"), AtLeast(Dot, 0), Alt(<<<<L("helper")>>, <<L("sidecar")>>>>), B>>,
        \* r"\b(sidecar|helper).*php\b"
        <<B, Alt(<<<<L("sidecar")>>, <<L("helper")>>>>), AtLeast(Dot, 0), L("php"), B>>,
        \* r"\bdd_appsec_enabled\b"
        <<B, L("dd_appsec_enabled"), B>>
    >>],
    [key |-> "workload_protection", label |-> "Workload Protection", group |-> "threat_management", patterns |-> <<
        \* r"\bworkload\s*protection\b"
        <<B, L("workload"), AtLeast(Space, 0), L("protection"), B>>,
        \* r"\bcws\b"
        <<B, L("cws"), B>>,
        \* r"\bcloud\s*workload\s*security\b"
        <<B, L("cloud"), AtLeast(Space, 0), L("workload"), AtLeast(Space, 0), L("security"), B>>,
        \* r"\bruntime\s*security\b"
        <<B, L("runtime"), AtLeast(Space, 0), L("security"), B>>,
        \* r"\bactive\s*protection\b"
        <<B, L("active"), AtLeast(Space, 0), L("protection"), B>>,
        \* r"\bsystem[- ]probe\b"
        <<B, L("system"), Between({"-", " "}, 1, 1), L("probe"), B>>,
        \* r"\bsecurity[- ]agent\b"
        <<B, L("security"), Between({"-", " "}, 1, 1), L("agent"), B>>,
        \* r"\bfim\b"
        <<B, L("fim"), B>>,
        \* r"\brunc\b"
        <<B, L("runc"), B>>,
        \* r"\bsbom\b"
        <<B, L("sbom"), B>>,
        \* r"\bagent\s*rule\b"
        <<B, L("agent"), AtLeast(Space, 0), L("rule"), B>>,
        \* r"\bdynamic\s*linker\b"
        <<B, L("dynamic"), AtLeast(Space, 0), L("linker"), B>>,
        \* r"\bebpf\b"
        <<B, L("ebpf"), B>>
    >>],
    [key |-> "cspm", label |-> "CSPM", group |-> "cloud_security", patterns |-> <<
        \* r"\bcspm\b"
        <<B, L("cspm"), B>>,
        \* r"\bposture\s*management\b"
        <<B, L("posture"), AtLeast(Space, 0), L("management"), B>>,
        \* r"\bmisconfiguration\b"
        <<B, L("misconfiguration"), B>>,
        \* r"\bcompliance\b"
        <<B, L("compliance"), B>>,
        \* r"\bbenchmark\b"
        <<B, L("benchmark"), B>>,
        \* r"\bcloud\s*configuration\b"
        <<B, L("cloud"), AtLeast(Space, 0), L("configuration"), B>>,
        \* r"\bcloud\s*security.*config"
        <<B, L("cloud"), AtLeast(Space, 0), L("security"), AtLeast(Dot, 0), L("config")>>,
        \* r"\bcis\b"
        <<B, L("cis"), B>>,
        \* r"\bstig\b"
        <<B, L("stig"), B>>,
        \* r"\bdisa\b"
        <<B, L("disa"), B>>,
        \* r"\biac\s*finding"
        <<B, L("iac"), AtLeast(Space, 0), L("finding")>>,
        \* r"\bfindings?\s*search\b"
        <<B, L("finding"), Between({"s"}, 0, 1), AtLeast(Space, 0), L("search"), B>>
    >>],
    [key |-> "vm", label |-> "Vulnerability Mgmt", group |-> "cloud_security", patterns |-> <<
        \* r"\bvulnerability\s*management\b"
        <<B, L("vulnerability"), AtLeast(Space, 0), L("management"), B>>,
        \* r"\bvulnerab"
        <<B, L("vulnerab")>>,
        \* r"\bcve\b"
        <<B, L("cve"), B>>,
        \* r"\bagentless\s*scann"
        <<B, L("agentless"), AtLeast(Space, 0), L("scann")>>,
        \* r"\bhost\s*vulnerabilit"
        <<B, L("host"), AtLeast(Space, 0), L("vulnerabilit")>>,
        \* r"\bcontainer\s*image\s*vulnerabilit"
        <<B, L("container"), AtLeast(Space, 0), L("image"), AtLeast(Space, 0), L("vulnerabilit")>>,
        \* r"\bcvss\b"
        <<B, L("cvss"), B>>,
        \* r"\bepss\b"
        <<B, L("epss"), B>>,
        \* r"\bcisa\s*kev\b"
        <<B, L("cisa"), AtLeast(Space, 0), L("kev"), B>>
    >>],
    [key |-> "ciem", label |-> "CIEM", group |-> "cloud_security", patterns |-> <<
        \* r"\bciem\b"
        <<B, L("ciem"), B>>,
        \* r"\bidentity\s*risk"
        <<B, L("identity"), AtLeast(Space, 0), L("risk")>>,
        \* r"\bentitlement\s*management\b"
        <<B, L("entitlement"), AtLeast(Space, 0), L("management"), B>>,
        \* r"\biam\s*access\s*analy"
        <<B, L("iam"), AtLeast(Space, 0), L("access"), AtLeast(Space, 0), L("analy")>>,
        \* r"\bprivilege\s*escalat"
        <<B, L("privilege"), AtLeast(Space, 0), L("escalat")>>,
        \* r"\bcross[- ]account\s*access\b"
        <<B, L("cross"), Between({"-", " "}, 1, 1), L("account"), AtLeast(Space, 0), L("access"), B>>,
        \* r"\bblast\s*radius\b"
        <<B, L("blast"), AtLeast(Space, 0), L("radius"), B>>,
        \* r"\bidentity\s*risks?\b"
        <<B, L("identity"), AtLeast(Space, 0), L("risk"), Between({"s"}, 0, 1), B>>
    >>],
    [key |-> "sast", label |-> "SAST", group |-> "code_security", patterns |-> <<
        \* r"\bsast\b"
        <<B, L("sast"), B>>,
        \* r"\bstatic\s*(application\s*security|analysis)\b"
        <<B, L("static"), AtLeast(Space, 0), Alt(<<<<L("application"), AtLeast(Space, 0), L("security")>>, <<L("analysis")>>>>), B>>,
        \* r"\bcode\s*security.*static\b"
        <<B, L("code"), AtLeast(Space, 0), L("security"), AtLeast(Dot, 0), L("static"), B>>,
        \* r"\bstatic\s*code\b"
        <<B, L("static"), AtLeast(Space, 0), L("code"), B>>,
        \* r"\bhosted\s*scanning\b"
        <<B, L("hosted"), AtLeast(Space, 0), L("scanning"), B>>
    >>],
    [key |-> "sca", label |-> "SCA", group |-> "code_security", patterns |-> <<
        \* r"\bsca\b"
        <<B, L("sca"), B>>,
        \* r"\bsoftware\s*composition\b"
        <<B, L("software"), AtLeast(Space, 0), L("composition"), B>>,
        \* r"\bdependenc"
        <<B, L("dependenc")>>,
        \* r"\brepo.*scanning\b"
        <<B, L("repo"), AtLeast(Dot, 0), L("scanning"), B>>,
        \* r"\bdd_appsec_sca_enabled\b"
        <<B, L("dd_appsec_sca_enabled"), B>>,
        \* r"\blicense\s*risk"
        <<B, L("license"), AtLeast(Space, 0), L("risk")>>,
        \* r"\bpackage\s*manifest"
        <<B, L("package"), AtLeast(Space, 0), L("manifest")>>
    >>],
    [key |-> "iast", label |-> "IAST", group |-> "code_security", patterns |-> <<
        \* r"\biast\b"
        <<B, L("iast"), B>>,
        \* r"\binteractive\s*application\s*security\b"
        <<B, L("interactive"), AtLeast(Space, 0), L("application"), AtLeast(Space, 0), L("security"), B>>,
        \* r"\bdd_iast_enabled\b"
        <<B, L("dd_iast_enabled"), B>>,
        \* r"\btainted\s*data\b"
        <<B, L("tainted"), AtLeast(Space, 0), L("data"), B>>,
        \* r"\bsource.*sink\b"
        <<B, L("source"), AtLeast(Dot, 0), L("sink"), B>>,
        \* r"\bsink.*source\b"
        <<B, L("sink"), AtLeast(Dot, 0), L("source"), B>>
    >>],
    [key |-> "other", label |-> "Other", group |-> None, patterns |-> <<>>]
  >>

\* re.compile(p, re.IGNORECASE): the flag makes the pattern read the lowered text
Compile(p, ignorecase) == [re |-> p, ic |-> ignorecase]

COMPILED_AREA_RULES ==
    [i \in 1..Len(PRODUCT_AREA_RULES) |->
        [key      |-> PRODUCT_AREA_RULES[i].key,
         label    |-> PRODUCT_AREA_RULES[i].label,
         group    |-> PRODUCT_AREA_RULES[i].group,
         patterns |-> [j \in 1..Len(PRODUCT_AREA_RULES[i].patterns) |->
                          Compile(PRODUCT_AREA_RULES[i].patterns[j], TRUE)]]]

\* pat.search(t) is not None, lt being the lowered t
PatSearch(pat, t, lt) == Search(pat.re, IF pat.ic THEN lt ELSE t)

\* mutant: the short-circuit also taking the word spelled out, r"org(anization)?\s*deletion\s*request"
OrgDeletionPatternSpelledOut ==
    Compile(<<L("org"), Alt(<<<<L("anization")>>, <<>>>>), AtLeast(Space, 0), L("deletion"),
              AtLeast(Space, 0), L("request")>>, TRUE)

\* r"org\s*deletion\s*request", searched with re.IGNORECASE
OrgDeletionPattern ==
    Compile(<<L("org"), AtLeast(Space, 0), L("deletion"), AtLeast(Space, 0), L("request")>>, TRUE)

\* some pattern of rule i matches (the inner for loop of detect_product_area)
RuleMatches(i, t, lt) ==
    \E j \in 1..Len(COMPILED_AREA_RULES[i].patterns) :
        PatSearch(COMPILED_AREA_RULES[i].patterns[j], t, lt)

\* mutant: the last matching rule wins
ScanRulesLastWins(t, lt, i) ==
    LET hits == {k \in i..Len(COMPILED_AREA_RULES) : RuleMatches(k, t, lt)}
    IN  IF hits = {} THEN "other" ELSE COMPILED_AREA_RULES[Max(hits)].key

\* mutant: no fallback, the first rule's key when nothing matches
ScanRulesNoFallback(t, lt, i) ==
    LET hits == {k \in i..Len(COMPILED_AREA_RULES) : RuleMatches(k, t, lt)}
    IN  COMPILED_AREA_RULES[IF hits = {} THEN 1 ELSE Min(hits)].key

\* mutant: "other" returned from inside the loop, after the first rule
ScanRulesFirstRuleOnly(t, lt, i) ==
    IF RuleMatches(i, t, lt) THEN COMPILED_AREA_RULES[i].key ELSE "other"

RECURSIVE ScanRules(_, _, _)
\* the for loop over _COMPILED_AREA_RULES, from rule i on
ScanRules(t, lt, i) ==
    IF i > Len(COMPILED_AREA_RULES) THEN "other"
    ELSE IF Len(COMPILED_AREA_RULES[i].patterns) = 0 THEN ScanRules(t, lt, i + 1)
    ELSE IF RuleMatches(i, t, lt) THEN COMPILED_AREA_RULES[i].key
    ELSE ScanRules(t, lt, i + 1)

\* mutant: the rule table read before the deletion-request check
detect_product_area_rules_first(t) ==
    LET lt   == Lower(t)
        hits == {k \in 1..Len(COMPILED_AREA_RULES) : RuleMatches(k, t, lt)}
    IN  IF hits # {} THEN COMPILED_AREA_RULES[Min(hits)].key ELSE "other"

detect_product_area(t) ==
    LET lt == Lower(t)
    IN  IF PatSearch(OrgDeletionPattern, t, lt) THEN "other"
        ELSE ScanRules(t, lt, 1)

-----------------------------------------------------------------------------
(* Source types and reference extraction                                    *)

\* (...) numbered 1 of a pattern: the atom the group is
Group(re) == Alt(<<re>>)

\* $ without re.MULTILINE: the end of the string, or before a newline that ends it
EOS == [k |-> "eos"]

\* [\w/._?&#%-]
UrlTail == Word \cup {"/", ".", "_", "?", "&", "#", "%", "-"}

\* (key, label, icon, url_patterns, ref_patterns), in table order;
\* group1 is the index of the atom that is group 1 of the pattern (0: no group)
SOURCE_TYPES ==
  <<
    [key |-> "jira", label |-> "JIRA", icon |-> "ticket",
     url_patterns |-> <<
        \* r"https?://datadoghq\.atlassian\.net/browse/([\w-]+)", re.IGNORECASE
        [re |-> <<L("http"), Between({"s"}, 0, 1), L("://datadoghq.atlassian.net/browse/"),
                  Group(<<AtLeast(Word \cup {"-"}, 1)>>)>>,
         ic |-> TRUE, group1 |-> 4]
     >>,
     ref_patterns |-> <<
        \* r"\b(SCRS-\d+|ZD-\d+|SECENG-\d+)\b"
        [re |-> <<B, Alt(<<<<L("SCRS-"), AtLeast(Digit, 1)>>,
                           <<L("ZD-"), AtLeast(Digit, 1)>>,
                           <<L("SECENG-"), AtLeast(Digit, 1)>>>>), B>>,
         ic |-> FALSE, group1 |-> 2]
     >>],
    [key |-> "confluence", label |-> "Confluence", icon |-> "wiki",
     url_patterns |-> <<
        \* r"https?://datadoghq\.atlassian\.net/wiki/[\w/+.-]+", re.IGNORECASE
        [re |-> <<L("http"), Between({"s"}, 0, 1), L("://datadoghq.atlassian.net/wiki/"),
                  AtLeast(Word \cup {"/", "+", ".", "-"}, 1)>>,
         ic |-> TRUE, group1 |-> 0]
     >>,
     ref_patterns |-> <<>>],
    [key |-> "datadog_docs", label |-> "Datadog Docs", icon |-> "docs",
     url_patterns |-> <<
        \* r"https?://docs\.datadoghq\.com/[\w/._?&#%-]+", re.IGNORECASE
        [re |-> <<L("http"), Between({"s"}, 0, 1), L("://docs.datadoghq.com/"),
                  AtLeast(UrlTail, 1)>>,
         ic |-> TRUE, group1 |-> 0]
     >>,
     ref_patterns |-> <<>>],
    [key |-> "github", label |-> "GitHub", icon |-> "code",
     url_patterns |-> <<
        \* r"https?://github\.com/[\w.-]+/[\w.-]+[\w/._?&#%-]*", re.IGNORECASE
        [re |-> <<L("http"), Between({"s"}, 0, 1), L("://github.com/"),
                  AtLeast(Word \cup {".", "-"}, 1), L("/"),
                  AtLeast(Word \cup {".", "-"}, 1), AtLeast(UrlTail, 0)>>,
         ic |-> TRUE, group1 |-> 0]
     >>,
     ref_patterns |-> <<>>],
    [key |-> "slack", label |-> "Slack", icon |-> "chat",
     url_patterns |-> <<
        \* r"https?://dd\.(?:enterprise\.)?slack\.com/[\w/.-]+", re.IGNORECASE
        [re |-> <<L("http"), Between({"s"}, 0, 1), L("://dd."),
                  Alt(<<<<L("enterprise.")>>, <<>>>>), L("slack.com/"),
                  AtLeast(Word \cup {"/", ".", "-"}, 1)>>,
         ic |-> TRUE, group1 |-> 0]
     >>,
     ref_patterns |-> <<
        \* r"#[\w_-]{2,}", re.IGNORECASE
        [re |-> <<L("#"), AtLeast(Word \cup {"_", "-"}, 2)>>,
         ic |-> TRUE, group1 |-> 0]
     >>],
    [key |-> "terraform", label |-> "Terraform", icon |-> "infra",
     url_patterns |-> <<
        \* r"https?://registry\.terraform\.io/[\w/._?&#%-]+", re.IGNORECASE
        [re |-> <<L("http"), Between({"s"}, 0, 1), L("://registry.terraform.io/"),
                  AtLeast(UrlTail, 1)>>,
         ic |-> TRUE, group1 |-> 0]
     >>,
     ref_patterns |-> <<>>]
  >>

RECURSIVE FindFrom(_, _, _)
\* the matches of re in s from position pos on, leftmost first, not overlapping;
\* a match runs from start to end - 1 (the greedy classes take the longest run)
FindFrom(re, s, pos) ==
    LET starts == {p \in pos..Len(s) : Ends(re, s, p) # {}}
    IN  IF starts = {} THEN <<>>
        ELSE LET p == Min(starts)
                 e == Max(Ends(re, s, p))
             IN  <<[start |-> p, end |-> e]>> \o FindFrom(re, s, e)

\* pat.finditer(t)
FindIter(pat, t, lt) == FindFrom(pat.re, IF pat.ic THEN lt ELSE t, 1)

\* match.group(0)
Group0(t, m) == SubSeq(t, m.start, m.end - 1)

\* match.group(1) of a pattern whose group 1 is its last atom
Group1(pat, t, lt, m) ==
    LET s   == IF pat.ic THEN lt ELSE t
        pre == EndsFrom(SubSeq(pat.re, 1, pat.group1 - 1), s, 1, {m.start})
    IN  SubSeq(t, Max(pre), m.end - 1)

RECURSIVE RStrip(_, _)
\* s.rstrip(c)
RStrip(s, c) ==
    IF Len(s) > 0 /\ Ch(s, Len(s)) = c THEN RStrip(SubSeq(s, 1, Len(s) - 1), c) ELSE s

\* the window before a match in which a markdown link is looked for
LookBack == 200

\* r"\[([^\]]+)\]\s*\($"
MdLinkPattern ==
    <<L("["), Group(<<AtLeast(Alphabet \ {"]"}, 1)>>), L("]"), AtLeast(Space, 0), L("("), EOS>>

\* re.search(r"\[([^\]]+)\]\s*\($", prefix): the label (group 1) of the leftmost
\* match, None when there is no match
MdLink(prefix) ==
    LET starts == {p \in 1..Len(prefix) : Ends(MdLinkPattern, prefix, p) # {}}
    IN  IF starts = {} THEN None
        ELSE LET p == Min(starts)
             IN  SubSeq(prefix, p + 1, RunEnd(prefix, p + 1, Alphabet \ {"]"}) - 1)

\* where a context is cut, and what is kept of it before the "..."
ContextMax == 150

ContextKeep == 147

\* s.split("\n")
SplitLines(s) ==
    LET nl   == {i \in 1..Len(s) : Ch(s, i) = "\n"}
        \* the position of the k-th newline; 0 and Len(s) + 1 bound the text
        at(k) == IF k = 0 THEN 0
                 ELSE IF k > Cardinality(nl) THEN Len(s) + 1
                 ELSE CHOOSE i \in nl : Cardinality({j \in nl : j < i}) = k - 1
    IN  [k \in 1..(Cardinality(nl) + 1) |-> SubSeq(s, at(k - 1) + 1, at(k) - 1)]

\* r"\[([^\]]+)\]\([^)]+\)"
MdLinkFullPattern ==
    <<L("["), Group(<<AtLeast(Alphabet \ {"]"}, 1)>>), L("]("),
      AtLeast(Alphabet \ {")"}, 1), L(")")>>

RECURSIVE SubMdLinks(_, _)
\* re.sub(r"\[([^\]]+)\]\([^)]+\)", r"\1", s), from position pos on
SubMdLinks(s, pos) ==
    LET starts == {p \in pos..Len(s) : Ends(MdLinkFullPattern, s, p) # {}}
    IN  IF starts = {} THEN SubSeq(s, pos, Len(s))
        ELSE LET p == Min(starts)
             IN  SubSeq(s, pos, p - 1)
                 \o SubSeq(s, p + 1, RunEnd(s, p + 1, Alphabet \ {"]"}) - 1)
                 \o SubMdLinks(s, Max(Ends(MdLinkFullPattern, s, p)))

\* re.sub(r"[cs]", "", s)
RemoveChars(s, cs) ==
    Cat([i \in 1..Len(s) |-> IF Ch(s, i) \in cs THEN "" ELSE Ch(s, i)])

\* s.strip(cs)
Strip(s, cs) ==
    LET keep == {i \in 1..Len(s) : Ch(s, i) \notin cs}
    IN  IF keep = {} THEN "" ELSE SubSeq(s, Min(keep), Max(keep))

\* re.sub(r"\s+", " ", s): a run of white space leaves one " "
CollapseSpace(s) ==
    Cat([i \in 1..Len(s) |->
            IF Ch(s, i) \notin Space THEN Ch(s, i)
            ELSE IF i > 1 /\ Ch(s, i - 1) \in Space THEN "" ELSE " "])

RECURSIVE Remove(_, _, _)
\* s.replace(needle, ""), from position pos on
Remove(s, needle, pos) ==
    LET hits == {p \in pos..(Len(s) - Len(needle) + 1) :
                    SubSeq(s, p, p + Len(needle) - 1) = needle}
    IN  IF hits = {} THEN SubSeq(s, pos, Len(s))
        ELSE SubSeq(s, pos, Min(hits) - 1) \o Remove(s, needle, Min(hits) + Len(needle))

\* the line that holds the needle, cleaned of markdown and of the needle
Cleaned(line, needle) ==
    LET c1 == SubMdLinks(line, 1)
        c2 == Strip(RemoveChars(c1, {"#", "*", ">", Backtick, "_", "~"}), Space)
        c3 == CollapseSpace(c2)
    IN  Strip(Remove(c3, needle, 1), {" ", "-", ":", ",", "."})

\* mutant: a long context cut without the "..."
CleanLineNoEllipsis(line, needle) ==
    LET c4 == Cleaned(line, needle)
    IN  IF Len(c4) > ContextMax THEN SubSeq(c4, 1, ContextMax) ELSE c4

\* the body of the loop of _get_context_for_match for the line that holds the needle
CleanLine(line, needle) ==
    LET c4 == Cleaned(line, needle)
    IN  IF Len(c4) > ContextMax THEN SubSeq(c4, 1, ContextKeep) \o "..." ELSE c4

\* mutant: the context of the last line that holds the needle
get_context_of_last_line(lines, needle) ==
    LET hits == {i \in 1..Len(lines) : Contains(lines[i], needle)}
    IN  IF hits = {} THEN "" ELSE CleanLine(lines[Max(hits)], needle)

get_context_for_match(lines, needle) ==
    LET hits == {i \in 1..Len(lines) : Contains(lines[i], needle)}
    IN  IF hits = {} THEN "" ELSE CleanLine(lines[Min(hits)], needle)

\* mutant: the check reads the display only, not the url
AlreadyCapturedDisplayOnly(ref_text, refs, i) ==
    IF \E r \in i..Len(refs) : Contains(refs[r].display, ref_text) THEN "yes" ELSE "no"

\* mutant: no check against the references captured so far
AlreadyCapturedNever(ref_text, refs, i) == "no"

\* the check of the bare pass against the references captured so far, from
\* reference i on: any(ref_text in r["display"] or ref_text in r["url"] for r in refs).
\* "in" on a url that is None raises TypeError
RECURSIVE AlreadyCaptured(_, _, _)
AlreadyCaptured(ref_text, refs, i) ==
    IF i > Len(refs) THEN "no"
    ELSE IF Contains(refs[i].display, ref_text) THEN "yes"
    ELSE IF refs[i].url = None THEN "TypeError"
    ELSE IF Contains(refs[i].url, ref_text) THEN "yes"
    ELSE AlreadyCaptured(ref_text, refs, i + 1)

\* mutant: the ticket key of a JIRA link wins over the markdown label
UrlDisplayKeyFirst(src_key, pat, t, lt, m, url) ==
    LET prefix  == SubSeq(t, IF m.start - LookBack > 1 THEN m.start - LookBack ELSE 1,
                          m.start - 1)
        md_link == MdLink(prefix)
    IN  IF src_key = "jira" /\ pat.group1 >= 1 THEN Group1(pat, t, lt, m)
        ELSE IF md_link # None THEN md_link
        ELSE url

\* the display of a URL match: the markdown label before it, else the ticket key
\* of a JIRA link, else the URL
UrlDisplay(src_key, pat, t, lt, m, url) ==
    LET prefix  == SubSeq(t, IF m.start - LookBack > 1 THEN m.start - LookBack ELSE 1,
                          m.start - 1)
        md_link == MdLink(prefix)
    IN  IF md_link # None THEN md_link
        ELSE IF src_key = "jira" /\ pat.group1 >= 1 THEN Group1(pat, t, lt, m)
        ELSE url

RECURSIVE UrlMatches(_, _, _, _, _, _, _, _)
\* the body of "for match in url_pat.finditer(raw_text)" for matches i.. of ms;
\* st holds refs, refs_seen and the exception raised, if any
UrlMatches(src_key, pat, t, lt, lines, ms, i, st) ==
    IF i > Len(ms) THEN st
    ELSE LET m       == ms[i]
             url     == RStrip(Group0(t, m), ")")
             display == UrlDisplay(src_key, pat, t, lt, m, url)
             key     == <<url, display>>
         IN  IF key \in st.refs_seen
             THEN UrlMatches(src_key, pat, t, lt, lines, ms, i + 1, st)
             ELSE UrlMatches(src_key, pat, t, lt, lines, ms, i + 1,
                    [st EXCEPT !.refs_seen = @ \cup {key},
                               !.refs = Append(@, [url |-> url, display |-> display,
                                   context |-> get_context_for_match(lines, Group0(t, m))])])

RECURSIVE UrlPass(_, _, _, _, _, _)
\* "for url_pat in url_patterns", from pattern j on
UrlPass(src, t, lt, lines, j, st) ==
    IF j > Len(src.url_patterns) THEN st
    ELSE UrlPass(src, t, lt, lines, j + 1,
            UrlMatches(src.key, src.url_patterns[j], t, lt, lines,
                       FindIter(src.url_patterns[j], t, lt), 1, st))

\* mutant: a channel handle linked by its name
RefUrlChannelLinked(src_key, ref_text) ==
    IF src_key = "jira" THEN "https://datadoghq.atlassian.net/browse/" \o ref_text
    ELSE "https://dd.slack.com/archives/" \o ref_text

\* mutant: no URL built for a bare ticket key
RefUrlUnlinked(src_key, ref_text) == None

\* the URL built for a bare reference
RefUrl(src_key, ref_text) ==
    IF src_key = "jira" THEN "https://datadoghq.atlassian.net/browse/" \o ref_text
    ELSE None

RECURSIVE RefMatches(_, _, _, _, _, _)
\* the body of "for match in ref_pat.finditer(raw_text)" for matches i.. of ms
RefMatches(src_key, t, lines, ms, i, st) ==
    IF i > Len(ms) \/ st.exc # None THEN st
    ELSE LET ref_text == Group0(t, ms[i])
             captured == AlreadyCaptured(ref_text, st.refs, 1)
             key      == <<ref_text, ref_text>>
         IN  IF captured = "TypeError" THEN [st EXCEPT !.exc = "TypeError"]
             ELSE IF captured = "yes" \/ key \in st.refs_seen
             THEN RefMatches(src_key, t, lines, ms, i + 1, st)
             ELSE RefMatches(src_key, t, lines, ms, i + 1,
                    [st EXCEPT !.refs_seen = @ \cup {key},
                               !.refs = Append(@, [url |-> RefUrl(src_key, ref_text),
                                   display |-> ref_text,
                                   context |-> get_context_for_match(lines, ref_text)])])

RECURSIVE RefPass(_, _, _, _, _, _)
\* "for ref_pat in ref_patterns", from pattern j on
RefPass(src, t, lt, lines, j, st) ==
    IF j > Len(src.ref_patterns) \/ st.exc # None THEN st
    ELSE RefPass(src, t, lt, lines, j + 1,
            RefMatches(src.key, t, lines, FindIter(src.ref_patterns[j], t, lt), 1, st))

\* mutant: the bare pass run before the URL pass
ScanSourceBareFirst(k, t, lt, lines) ==
    UrlPass(SOURCE_TYPES[k], t, lt, lines, 1,
        RefPass(SOURCE_TYPES[k], t, lt, lines, 1,
                [refs |-> <<>>, refs_seen |-> {}, exc |-> None]))

\* one turn of the loop over _SOURCE_TYPES: refs, refs_seen and the exception
\* raised, if any, of source type k
ScanSource(k, t, lt, lines) ==
    RefPass(SOURCE_TYPES[k], t, lt, lines, 1,
        UrlPass(SOURCE_TYPES[k], t, lt, lines, 1,
                [refs |-> <<>>, refs_seen |-> {}, exc |-> None]))

RECURSIVE ScanSourcesKeepEmpty(_, _, _, _, _)
\* mutant: a group appended for every source type, without the "if refs"
ScanSourcesKeepEmpty(t, lt, lines, k, out) ==
    IF k > Len(SOURCE_TYPES) THEN [exc |-> None, value |-> out]
    ELSE LET st == ScanSource(k, t, lt, lines)
         IN  IF st.exc # None THEN [exc |-> st.exc, value |-> <<>>]
             ELSE ScanSourcesKeepEmpty(t, lt, lines, k + 1,
                     Append(out, [key |-> SOURCE_TYPES[k].key,
                                  label |-> SOURCE_TYPES[k].label,
                                  icon |-> SOURCE_TYPES[k].icon,
                                  refs |-> st.refs]))

RECURSIVE ScanSources(_, _, _, _, _)
\* the loop over _SOURCE_TYPES from type k on; out holds the groups appended so far
ScanSources(t, lt, lines, k, out) ==
    IF k > Len(SOURCE_TYPES) THEN [exc |-> None, value |-> out]
    ELSE LET st == ScanSource(k, t, lt, lines)
         IN  IF st.exc # None THEN [exc |-> st.exc, value |-> <<>>]
             ELSE IF Len(st.refs) > 0
             THEN ScanSources(t, lt, lines, k + 1,
                     Append(out, [key |-> SOURCE_TYPES[k].key,
                                  label |-> SOURCE_TYPES[k].label,
                                  icon |-> SOURCE_TYPES[k].icon,
                                  refs |-> st.refs]))
             ELSE ScanSources(t, lt, lines, k + 1, out)

\* the outcome of extract_sources(raw_text): the exception it raises (None when it
\* returns) and the list it returns
extract_sources(raw_text) ==
    ScanSources(raw_text, Lower(raw_text), SplitLines(raw_text), 1, <<>>)

-----------------------------------------------------------------------------
(* The tables as the import of the module binds them                        *)

\* the position in the rule table of the rule of a key
RuleIndexOf(key) == CHOOSE i \in 1..Len(PRODUCT_AREA_RULES) : PRODUCT_AREA_RULES[i].key = key

\* a pattern text that re.compile rejects
Uncompilable == <<[k |-> "invalid"]>>

\* lines 464-467 for a rule table given
CompileRules(rules) ==
    [i \in 1..Len(rules) |->
        [key      |-> rules[i].key,
         label    |-> rules[i].label,
         group    |-> rules[i].group,
         patterns |-> [j \in 1..Len(rules[i].patterns) |->
                          Compile(rules[i].patterns[j], TRUE)]]]

\* line 469: a dict comprehension, the last rule of a key gives the key's label
LabelsOf(rules) ==
    [key \in {rules[i].key : i \in 1..Len(rules)} |->
        rules[Max({i \in 1..Len(rules) : rules[i].key = key})].label]

\* as AreaToGroup, without the test of the group
AreaToGroupOfAll(rules) ==
    [key \in {rules[i].key : i \in 1..Len(rules)} |->
        rules[Max({i \in 1..Len(rules) : rules[i].key = key})].group]

\* line 472: the same over the rules that have a group
AreaToGroup(rules) ==
    [key \in {rules[i].key : i \in {x \in 1..Len(rules) : rules[x].group # None}} |->
        rules[Max({i \in 1..Len(rules) : rules[i].key = key /\ rules[i].group # None})].group]

\* nothing bound yet: the rule table as written, before lines 464-520 run
Unloaded(rules) ==
    [status |-> "unloaded", rules |-> rules, groups |-> PRODUCT_AREA_GROUPS,
     compiled |-> <<>>, labels |-> <<>>, area_to_group |-> <<>>, source_types |-> <<>>]

\* lines 464-520: the tables bound at import; re.compile raises re.error for a
\* pattern it rejects, and nothing else is looked at
LoadTables(rules) ==
    IF \E i \in 1..Len(rules) : \E j \in 1..Len(rules[i].patterns) :
           rules[i].patterns[j] = Uncompilable
    THEN [Unloaded(rules) EXCEPT !.status = "re.error"]
    ELSE [status |-> "loaded", rules |-> rules, groups |-> PRODUCT_AREA_GROUPS,
          compiled |-> CompileRules(rules), labels |-> LabelsOf(rules),
          area_to_group |-> AreaToGroup(rules), source_types |-> SOURCE_TYPES]

StaticTables == LoadTables(PRODUCT_AREA_RULES)

\* some pattern of rule i of a compiled table matches
RuleMatchesIn(compiled, i, t, lt) ==
    \E j \in 1..Len(compiled[i].patterns) : PatSearch(compiled[i].patterns[j], t, lt)

RECURSIVE ScanLoaded(_, _, _, _)
\* the for loop of detect_product_area over the compiled table bound at import
ScanLoaded(compiled, t, lt, i) ==
    IF i > Len(compiled) THEN "other"
    ELSE IF Len(compiled[i].patterns) = 0 THEN ScanLoaded(compiled, t, lt, i + 1)
    ELSE IF RuleMatchesIn(compiled, i, t, lt) THEN compiled[i].key
    ELSE ScanLoaded(compiled, t, lt, i + 1)

\* detect_product_area(t) reading the global _COMPILED_AREA_RULES as bound
detect_loaded(compiled, t) ==
    LET lt == Lower(t)
    IN  IF PatSearch(OrgDeletionPattern, t, lt) THEN "other"
        ELSE ScanLoaded(compiled, t, lt, 1)
-----------------------------------------------------------------------------
(* The frame of a call: what a request thread holds while it runs           *)
(* detect_product_area or extract_sources                                    *)

\* the request threads of the server
Threads == {"t1", "t2"}

\* refs_seen = set(); refs = [] at the top of the loop over _SOURCE_TYPES
FreshScan == [refs |-> <<>>, refs_seen |-> {}, exc |-> None]

\* a thread that has made no call yet
IdleFrame ==
    [fn |-> "none", text |-> "", pc |-> "idle", k |-> 0, pass |-> "none", j |-> 0,
     ms |-> <<>>, i |-> 0, st |-> FreshScan, out |-> <<>>,
     result |-> [exc |-> Pending, value |-> <<>>], met |-> FALSE]

NoFrames == [t \in Threads |-> IdleFrame]

\* mutant: refs and refs_seen kept in one place for all threads
LocalsShared(fs, t) == fs[CHOOSE u \in Threads : TRUE].st

\* refs and refs_seen of the call that thread t runs: local names of the call
Locals(fs, t) == fs[t].st

\* mutant: refs_seen created once and never emptied
ResetScanKeepSeen(st) == [refs |-> <<>>, refs_seen |-> st.refs_seen, exc |-> None]

\* lines 544-545: both names bound to new empty objects, whatever they held
ResetScan(st) == FreshScan

\* the frame of a call of fn just entered on a thread whose frame was f
EnterCall(f, fn, t) ==
    [IdleFrame EXCEPT !.fn = fn, !.text = t, !.st = f.st,
                      !.pc = IF fn = "classify" THEN "scan" ELSE "match"]

\* the frame after the call has returned value (exc None) or raised exc
LeaveCall(f, exc, value) ==
    [IdleFrame EXCEPT !.fn = f.fn, !.text = f.text, !.st = f.st, !.met = f.met,
                      !.result = [exc |-> exc, value |-> value]]

\* the matches of pattern j of the pass of source type src in the text of f
MatchesOf(src, pass, j, t) ==
    LET pats == IF pass = "url" THEN src.url_patterns ELSE src.ref_patterns
    IN  IF j > Len(pats) THEN <<>> ELSE FindIter(pats[j], t, Lower(t))

\* the loop body for match i of the current pattern: refs, refs_seen and the
\* exception raised, if any, after it
AfterMatch(src, f, st) ==
    IF f.pass = "url"
    THEN UrlMatches(src.key, src.url_patterns[f.j], f.text, Lower(f.text),
                    SplitLines(f.text), <<f.ms[f.i]>>, 1, st)
    ELSE RefMatches(src.key, f.text, SplitLines(f.text), <<f.ms[f.i]>>, 1, st)

\* the pattern the loops turn to when the matches of pattern j of a pass are
\* done: the next of the pass, the first of the bare pass, or none
PatternAfter(src, pass, j) ==
    IF pass = "url" /\ j < Len(src.url_patterns) THEN [pass |-> "url", j |-> j + 1]
    ELSE IF pass = "url" /\ Len(src.ref_patterns) >= 1 THEN [pass |-> "ref", j |-> 1]
    ELSE IF pass = "ref" /\ j < Len(src.ref_patterns) THEN [pass |-> "ref", j |-> j + 1]
    ELSE [pass |-> "none", j |-> 0]

\* the frame of thread th with the note taken of whether, while its call runs,
\* another thread is in a call of another function or text
Noted(fs, th, f) ==
    [f EXCEPT !.met = @ \/ \E u \in Threads \ {th} :
                              /\ fs[u].pc # "idle"
                              /\ <<fs[u].fn, fs[u].text>> # <<f.fn, f.text>>]
-----------------------------------------------------------------------------
(* POST /api/sync: archive the investigations whose JIRA ticket is done      *)

DONE_STATUSES ==
    {"done", "done (zd automation)", "closed", "resolved", "won't do", "cancelled"}

\* s.startswith(prefix)
StartsWith(s, prefix) == Len(s) >= Len(prefix) /\ SubSeq(s, 1, Len(prefix)) = prefix

\* the values of a list
Range(seq) == {seq[i] : i \in 1..Len(seq)}

\* what jira_client.get_issue does for a key: it returns the issue, raises an
\* Exception (urlopen raises URLError), or leaves through sys.exit(1) (urlopen
\* raises HTTPError)
Issue(status) == [kind |-> "issue", status |-> status]

URLError == [kind |-> "URLError", status |-> ""]

HTTPError == [kind |-> "HTTPError", status |-> ""]

\* get_investigations: the directories of the investigations folder whose name
\* does not start with ".", in the order of the listing
get_investigations(listing) ==
    SelectSeq(listing, LAMBDA name : ~StartsWith(name, "."))

ScrsKeys(investigations) ==
    SelectSeq(investigations, LAMBDA key : StartsWith(key, "SCRS-"))

\* as ZdKeys, with every key
ZdKeysAll(investigations) == investigations

ZdKeys(investigations) ==
    SelectSeq(investigations, LAMBDA key : ~StartsWith(key, "SCRS-"))

\* _jira_fetch_full: the issues of the keys get_issue returned one for; the keys
\* whose get_issue raised an Exception are left out
jira_fetch_full(jira, keys) ==
    [key \in {k \in Range(keys) : jira[k].kind = "issue"} |-> jira[key]]

\* get_issue leaves through sys.exit for one of the keys: SystemExit is not an
\* Exception, so it leaves _jira_fetch_full and the request handler too
FetchExits(jira, keys) == \E k \in Range(keys) : jira[k].kind = "HTTPError"

\* jira_status.lower().strip() in DONE_STATUSES
IsDone(jira_status) == Strip(Lower(jira_status), Space) \in DONE_STATUSES

SyncResponse(s, checked, skipped) ==
    [checked |-> checked, archived |-> s.archived, still_active |-> s.still_active,
     errors |-> s.errors, skipped |-> skipped]

\* the state of a sync request that has not started: the listing of the
\* investigations folder, the files of the archive, and what JIRA answers
SyncStart(listing, jira) ==
    [listing |-> listing, folders |-> Range(listing), partial |-> {}, archive |-> {},
     jira |-> jira, pc |-> "idle", scrs_keys |-> <<>>, zd_keys |-> <<>>,
     full_issues |-> <<>>, i |-> 0, archived |-> <<>>, still_active |-> <<>>,
     errors |-> <<>>, archive_failed |-> {}, response |-> None]

SyncIdle == SyncStart(<<>>, <<>>)
-----------------------------------------------------------------------------
(* The file watcher, its change ledger and the watch streams                 *)

INVESTIGATIONS_DIR == <<"ROOT", "investigations">>

\* path.relative_to(INVESTIGATIONS_DIR): the parts below the folder, None for a
\* path that is not below it (ValueError)
RelativeTo(path, dir) ==
    IF Len(path) >= Len(dir) /\ SubSeq(path, 1, Len(dir)) = dir
    THEN [exc |-> None, parts |-> SubSeq(path, Len(dir) + 1, Len(path))]
    ELSE [exc |-> "ValueError", parts |-> <<>>]

\* the ledger is the set of its items <<key, timestamp>>, one for a key
LedgerKeys(ledger) == {item[1] : item \in ledger}

\* _investigation_changes.get(key, 0)
LedgerGet(ledger, key) ==
    IF key \in LedgerKeys(ledger)
    THEN (CHOOSE item \in ledger : item[1] = key)[2]
    ELSE 0

\* _investigation_changes[key] = now
LedgerSet(ledger, key, now) ==
    {item \in ledger : item[1] # key} \cup {<<key, now>>}

\* the entries _handle writes for an event, in the order of the writes: "both"
\* for a top-level directory, "one" for a file, none for the rest
Handle(event) ==
    LET to == RelativeTo(event.src_path, INVESTIGATIONS_DIR)
        rel == to.parts
    IN  IF to.exc # None THEN [write |-> "none", inv_key |-> None]
        ELSE IF event.is_directory /\ Len(rel) = 1
        THEN IF ~StartsWith(rel[1], ".")
             THEN [write |-> "both", inv_key |-> rel[1]]
             ELSE [write |-> "none", inv_key |-> None]
        ELSE IF event.is_directory THEN [write |-> "none", inv_key |-> None]
        ELSE IF Len(rel) > 0 /\ ~StartsWith(rel[1], ".")
        THEN [write |-> "one", inv_key |-> rel[1]]
        ELSE [write |-> "none", inv_key |-> None]

\* as WriteLedger, with the "_list" entry left alone
WriteLedgerKeyOnly(ledger, write, inv_key, now) == LedgerSet(ledger, inv_key, now)

\* the ledger after the writes of _handle
WriteLedger(ledger, write, inv_key, now) ==
    IF write = "both"
    THEN LedgerSet(LedgerSet(ledger, "_list", now), inv_key, now)
    ELSE LedgerSet(ledger, inv_key, now)

Free == "free"

\* with _investigation_changes_lock: the lock is taken by the thread
Acquire(lock, thread) == thread

StreamIds == {"investigation", "list"}

ClosedStream ==
    [pc |-> "closed", key |-> None, last_seen |-> 0, changed_at |-> 0, events |-> <<>>,
     status |-> 0]

NoEvent == [src_path |-> <<>>, is_directory |-> FALSE]

IdleHandler ==
    [pc |-> "idle", event |-> NoEvent, write |-> "none", inv_key |-> None, now |-> 0]

\* the state after construction: an empty ledger, a free lock, no stream
WatchIdle ==
    [clock |-> 1, ledger |-> {}, lock |-> Free, handler |-> IdleHandler,
     streams |-> [s \in StreamIds |-> ClosedStream], pending |-> {}]
-----------------------------------------------------------------------------
(* GET and PATCH /api/investigation/<key>/meta                               *)

VALID_STATUSES == <<"investigating", "waiting", "escalated", "done">>

\* x in a list
InList(x, list) == \E i \in 1..Len(list) : list[i] = x

\* meta.json: no file, a file that json.loads rejects (an empty one is), or a
\* JSON object with a status and an assignee
NoFile == [kind |-> "missing", status |-> "", assignee |-> ""]

Unparsable == [kind |-> "unparsable", status |-> "", assignee |-> ""]

MetaFile(status, assignee) == [kind |-> "json", status |-> status, assignee |-> assignee]

\* as read_meta, with the status of the file taken as it is
read_meta_unchecked(file) ==
    IF file.kind = "json"
    THEN [status |-> file.status, assignee |-> Strip(file.assignee, Space)]
    ELSE [status |-> "investigating", assignee |-> ""]

\* _read_meta: the defaults, the status of the file when it is a valid one, the
\* assignee of the file when it is not empty
read_meta(file) ==
    IF file.kind = "json"
    THEN [status |-> IF InList(file.status, VALID_STATUSES)
                     THEN file.status ELSE "investigating",
          assignee |-> IF file.assignee # "" THEN Strip(file.assignee, Space) ELSE ""]
    ELSE [status |-> "investigating", assignee |-> ""]

\* the fields PATCH gives the meta it has read: the status of the body when it
\* is valid (the request is refused otherwise), the assignee of the body
PatchedMeta(meta, data) ==
    LET m1 == IF "status" \in DOMAIN data THEN [meta EXCEPT !.status = data.status] ELSE meta
    IN  IF "assignee" \in DOMAIN data
        THEN [m1 EXCEPT !.assignee = Strip(data.assignee, Space)] ELSE m1

InvalidStatus(data) ==
    "status" \in DOMAIN data /\ ~InList(data.status, VALID_STATUSES)

NoResponse == [code |-> 0, status |-> "", assignee |-> ""]

ErrorResponse(code) == [code |-> code, status |-> "", assignee |-> ""]

MetaResponse(meta) == [code |-> 200, status |-> meta.status, assignee |-> meta.assignee]

NoBody == [none |-> TRUE]

\* the state of the meta API: the file of every investigation folder, the PATCH
\* in progress, and the last response of GET
MetaStart(files) ==
    [files |-> files,
     patch |-> [pc |-> "idle", key |-> "", data |-> NoBody, meta |-> read_meta(NoFile),
                response |-> NoResponse],
     get |-> [key |-> "", response |-> NoResponse]]

MetaIdle == MetaStart(<<>>)
-----------------------------------------------------------------------------
(* _stream_gemini: the tool-calling loop of the chat                         *)

max_tool_turns == 8

chunk_size == 80

TOOL_FUNCTIONS == {"search_workspace", "read_investigation", "fetch_jira_ticket", "search_jira"}

\* the events of the stream
Event(type, tool) == [type |-> type, tool |-> tool]

\* what chat_session.send_message gives: a text without function calls (of a
\* length), function calls (their names), or an exception
TextResponse(length) == [kind |-> "text", length |-> length, calls |-> <<>>]

CallsResponse(calls) == [kind |-> "calls", length |-> 0, calls |-> calls]

RaisedResponse == [kind |-> "raises", length |-> 0, calls |-> <<>>]

\* the 'text' events of a text: one for every chunk_size characters
RECURSIVE TextChunks(_)
TextChunks(length) ==
    IF length <= 0 THEN <<>>
    ELSE <<Event("text", None)>> \o TextChunks(length - chunk_size)

\* the result of a tool call: of the function, of its exception, or of a name
\* that is not in TOOL_FUNCTIONS
ToolResult(name, raises) ==
    IF name \in TOOL_FUNCTIONS
    THEN IF raises THEN "Tool error" ELSE "result"
    ELSE "Unknown tool"

\* the state of a chat request: the messages of the request, the events sent,
\* the messages sent to the model, and the place in the loop
ChatStart(messages) ==
    [messages |-> messages, pc |-> "idle", events |-> <<>>, sent |-> 0, turn |-> 0,
     fn_calls |-> <<>>, c |-> 0, fn_response_parts |-> <<>>]

ChatIdle == ChatStart(<<>>)
-----------------------------------------------------------------------------
(* get_chat_provider: the provider of the chat                               *)

preferred ==
    <<"qwen2.5:14b", "qwen2.5:7b", "qwen2.5",
      "llama3.1:8b", "llama3.1", "llama3:8b", "llama3",
      "mistral", "mistral:7b",
      "gemma2:9b", "gemma2",
      "phi3:medium", "phi3",
      "deepseek-r1:8b", "deepseek-r1">>

\* the first model of the list that holds the name, "" when none does
FirstHolding(available, name) ==
    LET hits == {i \in 1..Len(available) : Contains(available[i], name)}
    IN  IF hits = {} THEN "" ELSE available[Min(hits)]

\* the model of the first preferred name that a model of the list holds
RECURSIVE PickPreferred(_, _)
PickPreferred(available, p) ==
    IF p > Len(preferred) THEN ""
    ELSE IF FirstHolding(available, preferred[p]) # ""
    THEN FirstHolding(available, preferred[p])
    ELSE PickPreferred(available, p + 1)

\* _pick_ollama_model
pick_ollama_model(OLLAMA_MODEL, available) ==
    IF OLLAMA_MODEL # "" /\ InList(OLLAMA_MODEL, available) THEN OLLAMA_MODEL
    ELSE IF OLLAMA_MODEL # "" /\ FirstHolding(available, OLLAMA_MODEL) # ""
    THEN FirstHolding(available, OLLAMA_MODEL)
    ELSE IF PickPreferred(available, 1) # "" THEN PickPreferred(available, 1)
    ELSE IF available # <<>> THEN available[1] ELSE ""

Provider(name, model, available) ==
    [provider |-> name, model |-> model, available |-> available]

\* get_chat_provider, for the environment of the process and the answer of
\* _check_ollama
get_chat_provider(env, ollama) ==
    IF env.ANTHROPIC_API_KEY # ""
    THEN Provider("anthropic", "claude-sonnet-4-20250514", TRUE)
    ELSE IF env.GEMINI_API_KEY # ""
    THEN Provider("gemini", env.GEMINI_MODEL, TRUE)
    ELSE IF ollama.running /\ ollama.models # <<>>
    THEN LET model == pick_ollama_model(env.OLLAMA_MODEL, ollama.models)
         IN  IF model # "" THEN Provider("ollama", model, TRUE)
             ELSE Provider("ollama", "", FALSE)
    ELSE Provider("none", "", FALSE)

NoProvider == Provider(Pending, "", FALSE)

ProviderStart(env, ollama) == [env |-> env, ollama |-> ollama, result |-> NoProvider]

ProviderIdle ==
    ProviderStart([ANTHROPIC_API_KEY |-> "", GEMINI_API_KEY |-> "",
                   GEMINI_MODEL |-> "gemini-2.0-flash", OLLAMA_MODEL |-> ""],
                  [running |-> FALSE, models |-> <<>>])
-----------------------------------------------------------------------------
(* scripts/bulk_archive.py: main and the two searches                        *)

\* maxResults of a page
page_size == 100

max_pages == 20

\* the number of issues of the page at offset: what is left of the total, cut to
\* maxResults, or to the largest page when the server does not honour maxResults
PageLength(total, offset, maxResults, honours) ==
    Min({Max({total - offset, 0}), IF honours THEN maxResults ELSE page_size})

RECURSIVE CountPages(_, _, _)
\* count_issues from page on: the count when the last page or an empty page is
\* seen, or when max_pages pages were read
CountPages(total, count, page) ==
    IF page >= max_pages THEN count
    ELSE LET n == PageLength(total, count, page_size, TRUE)
         IN  IF count + n >= total \/ n = 0 THEN count + n
             ELSE CountPages(total, count + n, page + 1)

\* count_issues: -1 when a request raises
count_issues(total, raises) == IF raises THEN -1 ELSE CountPages(total, 0, 0)

RECURSIVE SearchPages(_, _, _, _)
\* search_issues: pages are asked for while fewer than max_results issues are held
SearchPages(total, held, max_results, honours) ==
    IF held >= max_results THEN held
    ELSE LET batch_size == Min({page_size, max_results - held})
             n == PageLength(total, held, batch_size, honours)
         IN  IF held + n >= total \/ n = 0 THEN held + n
             ELSE SearchPages(total, held + n, max_results, honours)

\* the number of issues search_issues returns; none when the request gets an
\* HTTPError
search_issues(total, max_results, honours, http_error) ==
    IF http_error THEN 0 ELSE SearchPages(total, 0, max_results, honours)

\* as ApplyLimit, without the cut
ApplyNoLimit(found, limit) == found

\* issues = issues[:args.limit] when more were found
ApplyLimit(found, limit) == IF found > limit THEN limit ELSE found

\* the answer to "Proceed? [Y/n]" stops the run
Refuses(answer) == Strip(Lower(answer), Space) = "n"

\* the run before main: the arguments, what JIRA holds (the tickets of the query
\* at the count, and those created before the search) and how it answers, and
\* what the user will type
BulkStart(args, jira, answer) ==
    [args |-> args, jira |-> jira, answer |-> answer, pc |-> "idle",
     estimated_count |-> 0, issues |-> 0, i |-> 0, success |-> 0, failed |-> 0]

BulkIdle ==
    BulkStart([limit |-> 500, yes |-> FALSE],
              [total |-> 0, created |-> 0, count_raises |-> FALSE, honours |-> TRUE,
               http_error |-> FALSE],
              "")
-----------------------------------------------------------------------------
(* The parts of the program a specification leaves at rest                   *)

\* every part but those named is as it is after construction
OthersIdle(moving) ==
    /\ IF "sync" \in moving THEN TRUE ELSE sync = SyncIdle
    /\ IF "watch" \in moving THEN TRUE ELSE watch = WatchIdle
    /\ IF "metaapi" \in moving THEN TRUE ELSE metaapi = MetaIdle
    /\ IF "chat" \in moving THEN TRUE ELSE chat = ChatIdle
    /\ IF "provider" \in moving THEN TRUE ELSE provider = ProviderIdle
    /\ IF "bulk" \in moving THEN TRUE ELSE bulk = BulkIdle

\* every part but those named is left alone
OthersUnchanged(moving) ==
    /\ IF "sync" \in moving THEN TRUE ELSE sync' = sync
    /\ IF "watch" \in moving THEN TRUE ELSE watch' = watch
    /\ IF "metaapi" \in moving THEN TRUE ELSE metaapi' = metaapi
    /\ IF "chat" \in moving THEN TRUE ELSE chat' = chat
    /\ IF "provider" \in moving THEN TRUE ELSE provider' = provider
    /\ IF "bulk" \in moving THEN TRUE ELSE bulk' = bulk
-----------------------------------------------------------------------------
(* Inputs                                                                   *)

MaxWords == 3

MaxFrags == 3

\* the pieces the classifier's input texts are put together from
ClassifyWords ==
    <<"org", "Organization", " deletion REQUEST", " cspm", " Vulnerability", "siem", "\n">>

\* the pieces the extractor's input texts are put together from
ExtractFrags ==
    <<"https://datadoghq.atlassian.net/browse/SCRS-1", " SCRS-1", "2",
      "#ab", "#cd", "[t](", ")", "\n">>

\* whole documents given to the extractor besides
ExtractDocuments ==
    {"See https://datadoghq.atlassian.net/browse/ABC-123 for details, also mentioned in ABC-123 again and in #security-team channel.",
     "See https://datadoghq.atlassian.net/browse/SCRS-123 for details, also mentioned in SCRS-123 again and in #security-team channel.",
     "#ab then https://github.com/o/r and ZD-7 before SCRS-1",
     "ZD-7 then [t](https://datadoghq.atlassian.net/browse/SCRS-1) and https://datadoghq.atlassian.net/browse/SCRS-2 after SECENG-3 ZD-7",
     "https://datadoghq.atlassian.net/browse/ZD-5\nhttps://datadoghq.atlassian.net/browse/ZD-5 and ZD-5"}

RECURSIVE Concats(_, _)
\* every concatenation of at most n pieces of ws
Concats(ws, n) ==
    IF n = 0 THEN {""}
    ELSE LET shorter == Concats(ws, n - 1)
         IN  shorter \cup {s \o ws[j] : s \in shorter, j \in 1..Len(ws)}

ClassifyInputs == Concats(ClassifyWords, MaxWords)

ExtractInputs == Concats(ExtractFrags, MaxFrags) \cup ExtractDocuments

-----------------------------------------------------------------------------
(* The caller: one text, classified once or scanned for references once     *)

\* the outcome slot of extract_sources before the call has returned
NoOutcome == [exc |-> Pending, value |-> <<>>]

InitClassify ==
    /\ text \in ClassifyInputs
    /\ area = Pending
    /\ sources = NoOutcome
    /\ tables = StaticTables
    /\ frames = NoFrames
    /\ OthersIdle({})

Classify ==
    /\ area = Pending
    /\ area' = detect_product_area(text)
    /\ UNCHANGED <<text, sources, tables, frames>>
    /\ OthersUnchanged({})

NextClassify == Classify

SpecClassify == InitClassify /\ [][NextClassify]_vars

InitExtract ==
    /\ text \in ExtractInputs
    /\ area = Pending
    /\ sources = NoOutcome
    /\ tables = StaticTables
    /\ frames = NoFrames
    /\ OthersIdle({})

Extract ==
    /\ sources = NoOutcome
    /\ tables = StaticTables
    /\ frames = NoFrames
    /\ sources' = extract_sources(text)
    /\ UNCHANGED <<text, area, tables, frames>>
    /\ OthersUnchanged({})

NextExtract == Extract

SpecExtract == InitExtract /\ [][NextExtract]_vars
-----------------------------------------------------------------------------
(* The caller: one document scanned for references once                     *)

MaxDocFrags == 2

\* n copies of the piece s in a row
Repeat(s, n) == Cat([i \in 1..n |-> s])

\* documents with link labels, long lines and keys on several lines
ContextDocuments ==
    {"[t] (https://datadoghq.atlassian.net/browse/SCRS-1)",
     "[a [b](https://datadoghq.atlassian.net/browse/SCRS-1)",
     "[" \o Repeat("l", LookBack - 3) \o "](https://datadoghq.atlassian.net/browse/SCRS-1)",
     "[" \o Repeat("l", LookBack - 2) \o "](https://datadoghq.atlassian.net/browse/SCRS-1)",
     "[t](https://github.com/o/r) or https://github.com/o/r",
     "see https://docs.datadoghq.com/security/ and SECENG-3",
     "SCRS-1 SSCRS-1CRS-1",
     "xSCRS-1y\nsee SCRS-1 now",
     "#ab\n\n#cd is in line 3, [#ab](https://dd.slack.com/x) too",
     Repeat("x", ContextMax) \o " SCRS-1",
     Repeat("x", ContextMax + 1) \o " SCRS-1",
     Repeat("word ", 40) \o "https://github.com/o/r " \o Repeat("*more* ", 10)}

DocumentInputs ==
    Concats(ExtractFrags, MaxDocFrags) \cup ExtractDocuments \cup ContextDocuments

InitDocuments ==
    /\ text \in DocumentInputs
    /\ area = Pending
    /\ sources = NoOutcome
    /\ tables = StaticTables
    /\ frames = NoFrames
    /\ OthersIdle({})

NextDocuments == Extract

SpecDocuments == InitDocuments /\ [][NextDocuments]_vars
-----------------------------------------------------------------------------
(* Request threads calling detect_product_area and extract_sources, their    *)
(* steps interleaved                                                         *)

\* the texts the requests classify and scan
ClassifyRequests == {" cspm Vulnerability", "org deletion request siem"}

ExtractRequests ==
    {"[t](https://datadoghq.atlassian.net/browse/SCRS-1) SCRS-1 ZD-7\nhttps://datadoghq.atlassian.net/browse/SCRS-1 #ab",
     "#ab #cd"}

InitThreads ==
    /\ text = ""
    /\ area = Pending
    /\ sources = NoOutcome
    /\ tables = StaticTables
    /\ frames = NoFrames
    /\ OthersIdle({})

\* a request handler calls detect_product_area(t)
CallClassify(th, t) ==
    /\ frames[th].pc = "idle"
    /\ frames' = [frames EXCEPT ![th] = Noted(frames, th, EnterCall(@, "classify", t))]
    /\ UNCHANGED <<text, area, sources, tables>>
    /\ OthersUnchanged({})

\* lines 481-490: the call reads the compiled table and returns
ClassifyReturn(th) ==
    /\ frames[th].pc = "scan"
    /\ frames' = [frames EXCEPT ![th] =
                     LeaveCall(Noted(frames, th, @), None,
                               detect_loaded(tables.compiled, @.text))]
    /\ UNCHANGED <<text, area, sources, tables>>
    /\ OthersUnchanged({})

\* lines 543-548: the loop over _SOURCE_TYPES turns to source type k, with fresh
\* refs and refs_seen, or is over after the last source type
TurnTo(f, k, st) ==
    IF k > Len(tables.source_types)
    THEN [f EXCEPT !.pc = "return", !.k = k, !.pass = "none", !.j = 0, !.i = 0,
                   !.ms = <<>>]
    ELSE [f EXCEPT !.pc = "match", !.k = k, !.pass = "url", !.j = 1, !.i = 1,
                   !.st = ResetScan(st),
                   !.ms = MatchesOf(tables.source_types[k], "url", 1, f.text)]

\* a request handler calls extract_sources(t): lines 540-548, up to the first
\* source type
CallExtract(th, t) ==
    /\ frames[th].pc = "idle"
    /\ frames' = [frames EXCEPT ![th] =
                     TurnTo(Noted(frames, th, EnterCall(@, "extract", t)), 1,
                            Locals(frames, th))]
    /\ UNCHANGED <<text, area, sources, tables>>
    /\ OthersUnchanged({})

\* lines 549-574 and 578-601: the loop body for one match; an exception raised in
\* it ends the call
MatchStep(th) ==
    LET f  == Noted(frames, th, frames[th])
        st == AfterMatch(tables.source_types[f.k], f, Locals(frames, th))
    IN  /\ f.pc = "match"
        /\ f.i <= Len(f.ms)
        /\ frames' = [frames EXCEPT ![th] =
                         IF st.exc # None
                         THEN LeaveCall([f EXCEPT !.st = st], st.exc, <<>>)
                         ELSE [f EXCEPT !.st = st, !.i = f.i + 1]]
        /\ UNCHANGED <<text, area, sources, tables>>
        /\ OthersUnchanged({})

\* lines 548 and 577: the matches of a pattern are done and the source type has
\* a pattern left, the loops turn to it
NextPattern(th) ==
    LET f    == Noted(frames, th, frames[th])
        next == PatternAfter(tables.source_types[f.k], f.pass, f.j)
    IN  /\ f.pc = "match"
        /\ f.i > Len(f.ms)
        /\ next.pass # "none"
        /\ frames' = [frames EXCEPT ![th] =
                         [f EXCEPT !.pass = next.pass, !.j = next.j, !.i = 1,
                                   !.ms = MatchesOf(tables.source_types[f.k],
                                                    next.pass, next.j, f.text)]]
        /\ UNCHANGED <<text, area, sources, tables>>
        /\ OthersUnchanged({})

\* lines 603-609: no pattern is left, the group of the source type is appended
\* if it has references and the loop turns to the next source type
AppendGroup(th) ==
    LET f   == Noted(frames, th, frames[th])
        src == tables.source_types[f.k]
        st  == Locals(frames, th)
    IN  /\ f.pc = "match"
        /\ f.i > Len(f.ms)
        /\ PatternAfter(src, f.pass, f.j).pass = "none"
        /\ frames' = [frames EXCEPT ![th] =
                         TurnTo([f EXCEPT !.out = IF Len(st.refs) > 0
                                                 THEN Append(f.out, [key |-> src.key,
                                                         label |-> src.label,
                                                         icon |-> src.icon,
                                                         refs |-> st.refs])
                                                 ELSE f.out],
                                f.k + 1, st)]
        /\ UNCHANGED <<text, area, sources, tables>>
        /\ OthersUnchanged({})

\* line 611: return sources
ExtractReturn(th) ==
    LET f == Noted(frames, th, frames[th])
    IN  /\ f.pc = "return"
        /\ frames' = [frames EXCEPT ![th] = LeaveCall(f, None, f.out)]
        /\ UNCHANGED <<text, area, sources, tables>>
        /\ OthersUnchanged({})

NextThreads ==
    \E th \in Threads :
        \/ \E t \in ClassifyRequests : CallClassify(th, t)
        \/ ClassifyReturn(th)
        \/ \E t \in ExtractRequests : CallExtract(th, t)
        \/ MatchStep(th)
        \/ NextPattern(th)
        \/ AppendGroup(th)
        \/ ExtractReturn(th)

SpecThreads == InitThreads /\ [][NextThreads]_vars
-----------------------------------------------------------------------------
(* The import of the module over a rule table as written, then one call of   *)
(* detect_product_area                                                       *)

MaxLoadWords == 2

\* the rule table of the source, and rule tables written with a slip
CandidateRules ==
    {PRODUCT_AREA_RULES,
     \* a rule with patterns and no group
     <<[PRODUCT_AREA_RULES[RuleIndexOf("cspm")] EXCEPT !.group = None],
       PRODUCT_AREA_RULES[RuleIndexOf("vm")],
       PRODUCT_AREA_RULES[RuleIndexOf("other")]>>,
     \* two rules with the key "cspm"
     <<PRODUCT_AREA_RULES[RuleIndexOf("cspm")],
       [PRODUCT_AREA_RULES[RuleIndexOf("vm")] EXCEPT !.key = "cspm"],
       PRODUCT_AREA_RULES[RuleIndexOf("other")]>>,
     \* a pattern that does not compile
     <<[PRODUCT_AREA_RULES[RuleIndexOf("siem")] EXCEPT !.patterns = <<Uncompilable>>],
       PRODUCT_AREA_RULES[RuleIndexOf("other")]>>}

LoadInputs == Concats(ClassifyWords, MaxLoadWords)

InitLoad ==
    /\ text \in LoadInputs
    /\ area = Pending
    /\ sources = NoOutcome
    /\ \E rules \in CandidateRules : tables = Unloaded(rules)
    /\ frames = NoFrames
    /\ OthersIdle({})

\* the import runs lines 464-520
Load ==
    /\ tables.status = "unloaded"
    /\ tables' = LoadTables(tables.rules)
    /\ UNCHANGED <<text, area, sources, frames>>
    /\ OthersUnchanged({})

\* a request classifies the text over the tables the import bound
ClassifyLoaded ==
    /\ tables.status = "loaded"
    /\ area = Pending
    /\ area' = detect_loaded(tables.compiled, text)
    /\ UNCHANGED <<text, sources, tables, frames>>
    /\ OthersUnchanged({})

NextLoad == Load \/ ClassifyLoaded

SpecLoad == InitLoad /\ [][NextLoad]_vars
-----------------------------------------------------------------------------
(* The sync request, one step of sync_investigations at a time               *)

MaxFolders == 3

FolderNames == {"SCRS-1", "SCRS-2", "ZD-7", "scrs-3", ".cache"}

\* the listings of at most n directories
Listings(n) ==
    UNION {{l \in [1..len -> FolderNames] : \A i, j \in 1..len : l[i] = l[j] => i = j}
           : len \in 0..n}

JiraAnswers ==
    {Issue("Done"), Issue("Closed "), Issue("In Progress"), URLError, HTTPError}

\* the classifier and the extractor at rest
core == <<text, area, sources, tables, frames>>

CoreIdle ==
    /\ text = ""
    /\ area = Pending
    /\ sources = NoOutcome
    /\ tables = StaticTables
    /\ frames = NoFrames

InitSync ==
    /\ CoreIdle
    /\ \E listing \in Listings(MaxFolders) :
           \E jira \in [{k \in Range(listing) : StartsWith(k, "SCRS-")} -> JiraAnswers] :
               sync = SyncStart(listing, jira)
    /\ OthersIdle({"sync"})

\* sync_investigations up to the loop: the keys are split, and either the
\* response is sent (no SCRS key), or the issues are fetched
SyncBegin ==
    /\ sync.pc = "idle"
    /\ LET investigations == get_investigations(sync.listing)
           scrs_keys == ScrsKeys(investigations)
           zd_keys == ZdKeys(investigations)
           s == [sync EXCEPT !.scrs_keys = scrs_keys, !.zd_keys = zd_keys]
       IN  IF scrs_keys = <<>>
           THEN sync' = [s EXCEPT !.pc = "responded",
                                  !.response = SyncResponse(s, 0, zd_keys)]
           ELSE IF FetchExits(sync.jira, scrs_keys)
           THEN sync' = [s EXCEPT !.pc = "SystemExit"]
           ELSE sync' = [s EXCEPT !.pc = "loop", !.i = 1,
                                  !.full_issues = jira_fetch_full(sync.jira, scrs_keys)]
    /\ UNCHANGED core
    /\ OthersUnchanged({"sync"})

\* one pass of the loop up to the removal of the folder: the key is reported in
\* errors or in still_active, or the archive file of a done issue is written
SyncKey ==
    /\ sync.pc = "loop"
    /\ sync.i <= Len(sync.scrs_keys)
    /\ LET key == sync.scrs_keys[sync.i]
           next == [sync EXCEPT !.i = sync.i + 1]
       IN  IF key \notin DOMAIN sync.full_issues
           THEN sync' = [next EXCEPT !.errors =
                            Append(sync.errors, [key |-> key, error |-> "Could not fetch from JIRA"])]
           ELSE LET jira_status == sync.full_issues[key].status
                IN  IF IsDone(jira_status)
                    THEN \/ sync' = [sync EXCEPT !.pc = "written",
                                                 !.archive = sync.archive \cup {key}]
                         \/ sync' = [next EXCEPT !.archive_failed = sync.archive_failed \cup {key},
                                                 !.errors = Append(sync.errors,
                                                     [key |-> key, error |-> "OSError"])]
                    ELSE sync' = [next EXCEPT !.still_active =
                                     Append(sync.still_active,
                                            [key |-> key, jira_status |-> jira_status])]
    /\ UNCHANGED core
    /\ OthersUnchanged({"sync"})

\* shutil.rmtree(inv_dir) after the archive file was written: the folder is
\* removed, or rmtree raises with the folder removed in part
SyncRemove ==
    /\ sync.pc = "written"
    /\ LET key == sync.scrs_keys[sync.i]
           next == [sync EXCEPT !.i = sync.i + 1, !.pc = "loop"]
       IN  \/ sync' = [next EXCEPT !.folders = sync.folders \ {key},
                                   !.archived = Append(sync.archived,
                                       [key |-> key, jira_status |-> sync.full_issues[key].status])]
           \/ sync' = [next EXCEPT !.partial = sync.partial \cup {key},
                                   !.errors = Append(sync.errors,
                                       [key |-> key, error |-> "OSError"])]
    /\ UNCHANGED core
    /\ OthersUnchanged({"sync"})

\* the response after the loop
SyncRespond ==
    /\ sync.pc = "loop"
    /\ sync.i > Len(sync.scrs_keys)
    /\ sync' = [sync EXCEPT !.pc = "responded",
                            !.response = SyncResponse(sync, Len(sync.scrs_keys), sync.zd_keys)]
    /\ UNCHANGED core
    /\ OthersUnchanged({"sync"})

NextSync == SyncBegin \/ SyncKey \/ SyncRemove \/ SyncRespond

SpecSync == InitSync /\ [][NextSync]_vars
-----------------------------------------------------------------------------
(* The watcher thread and the stream threads, one step at a time             *)

MaxTime == 3

Dir(path) == [src_path |-> path, is_directory |-> TRUE]

File(path) == [src_path |-> path, is_directory |-> FALSE]

WatchEvents ==
    {Dir(INVESTIGATIONS_DIR \o <<"SCRS-1">>),
     File(INVESTIGATIONS_DIR \o <<"SCRS-1", "notes.md">>),
     Dir(INVESTIGATIONS_DIR \o <<"SCRS-1", "assets">>),
     Dir(INVESTIGATIONS_DIR \o <<".git">>),
     File(INVESTIGATIONS_DIR \o <<".git", "HEAD">>),
     File(<<"ROOT", "archive", "SCRS-1.md">>)}

ExistingFolders == {"SCRS-1"}

RequestKeys == {"SCRS-1", "SCRS-9"}

InitWatch ==
    /\ CoreIdle
    /\ watch = WatchIdle
    /\ OthersIdle({"watch"})

\* time passes: time.time() returns a larger value from now on
Tick ==
    /\ watch.clock < MaxTime
    /\ watch' = [watch EXCEPT !.clock = watch.clock + 1]
    /\ UNCHANGED core
    /\ OthersUnchanged({"watch"})

\* _handle up to the lock: the event is dropped, or the watcher goes for the
\* lock, for a top-level directory with the time read before
HandleEvent(event) ==
    /\ watch.handler.pc = "idle"
    /\ LET h == Handle(event)
       IN  watch' = [watch EXCEPT !.handler =
               [pc |-> IF h.write = "none" THEN "idle" ELSE "acquire",
                event |-> event, write |-> h.write, inv_key |-> h.inv_key,
                now |-> IF h.write = "both" THEN watch.clock ELSE 0]]
    /\ UNCHANGED core
    /\ OthersUnchanged({"watch"})

HandlerAcquire ==
    /\ watch.handler.pc = "acquire"
    /\ watch.lock = Free
    /\ watch' = [watch EXCEPT !.lock = Acquire(watch.lock, "watcher"),
                              !.handler.pc = "locked"]
    /\ UNCHANGED core
    /\ OthersUnchanged({"watch"})

\* the writes under the lock, for a file with the time read now; the change is
\* owed to the investigation stream when that stream is open on the key
HandlerWrite ==
    /\ watch.handler.pc = "locked"
    /\ LET h == watch.handler
           now == IF h.write = "both" THEN h.now ELSE watch.clock
           stream == watch.streams["investigation"]
       IN  watch' = [watch EXCEPT
               !.ledger = WriteLedger(watch.ledger, h.write, h.inv_key, now),
               !.lock = Free,
               !.handler.pc = "idle",
               !.handler.now = now,
               !.pending = IF stream.pc \notin {"closed", "notfound"} /\ stream.key = h.inv_key
                           THEN watch.pending \cup {now} ELSE watch.pending]
    /\ UNCHANGED core
    /\ OthersUnchanged({"watch"})

\* investigation_watch(key) up to the first sleep: 404 without the folder, else
\* the stream starts with last_seen = time.time()
OpenInvestigationWatch(key) ==
    /\ watch.streams["investigation"].pc = "closed"
    /\ watch' = [watch EXCEPT !.streams["investigation"] =
           IF key \notin ExistingFolders
           THEN [ClosedStream EXCEPT !.pc = "notfound", !.key = key, !.status = 404]
           ELSE [ClosedStream EXCEPT !.pc = "sleep", !.key = key, !.status = 200,
                                     !.last_seen = watch.clock]]
    /\ UNCHANGED core
    /\ OthersUnchanged({"watch"})

\* investigations_list_watch up to the first sleep
OpenListWatch ==
    /\ watch.streams["list"].pc = "closed"
    /\ watch' = [watch EXCEPT !.streams["list"] =
           [ClosedStream EXCEPT !.pc = "sleep", !.key = "_list", !.status = 200,
                                !.last_seen = watch.clock]]
    /\ UNCHANGED core
    /\ OthersUnchanged({"watch"})

\* after the sleep the stream takes the lock
StreamAcquire(s) ==
    /\ watch.streams[s].pc = "sleep"
    /\ watch.lock = Free
    /\ watch' = [watch EXCEPT !.lock = Acquire(watch.lock, s), !.streams[s].pc = "locked"]
    /\ UNCHANGED core
    /\ OthersUnchanged({"watch"})

\* the read under the lock and the comparison with last_seen
StreamRead(s) ==
    /\ watch.streams[s].pc = "locked"
    /\ LET stream == watch.streams[s]
           changed_at == LedgerGet(watch.ledger, stream.key)
       IN  watch' = [watch EXCEPT
               !.lock = Free,
               !.streams[s] =
                   IF changed_at > stream.last_seen
                   THEN [stream EXCEPT !.pc = "debounce", !.last_seen = changed_at,
                                       !.changed_at = changed_at]
                   ELSE [stream EXCEPT !.pc = "sleep"]]
    /\ UNCHANGED core
    /\ OthersUnchanged({"watch"})

\* the 'changed' event after the debounce; it pays the changes it is not older than
StreamYield(s) ==
    /\ watch.streams[s].pc = "debounce"
    /\ LET stream == watch.streams[s]
       IN  watch' = [watch EXCEPT
               !.streams[s] = [stream EXCEPT !.pc = "sleep",
                                             !.events = Append(stream.events, stream.changed_at)],
               !.pending = IF s = "investigation"
                           THEN {t \in watch.pending : t > stream.changed_at}
                           ELSE watch.pending]
    /\ UNCHANGED core
    /\ OthersUnchanged({"watch"})

NextWatch ==
    \/ Tick
    \/ \E event \in WatchEvents : HandleEvent(event)
    \/ HandlerAcquire
    \/ HandlerWrite
    \/ \E key \in RequestKeys : OpenInvestigationWatch(key)
    \/ OpenListWatch
    \/ \E s \in StreamIds : StreamAcquire(s)
    \/ \E s \in StreamIds : StreamRead(s)
    \/ \E s \in StreamIds : StreamYield(s)

SpecWatch == InitWatch /\ [][NextWatch]_vars

\* the threads are scheduled: a stream that is not blocked goes on, and so does
\* the watcher
SpecWatchLive ==
    /\ SpecWatch
    /\ WF_vars(HandlerAcquire)
    /\ WF_vars(HandlerWrite)
    /\ \A s \in StreamIds : SF_vars(StreamAcquire(s))
    /\ \A s \in StreamIds : WF_vars(StreamRead(s))
    /\ \A s \in StreamIds : WF_vars(StreamYield(s))
-----------------------------------------------------------------------------
(* The meta API: a PATCH whose write is in two steps, and GET requests       *)

MetaFolders == {"SCRS-1"}

MetaRequestKeys == {"SCRS-1", "SCRS-9"}

\* the JSON bodies of the PATCH requests
PatchBodies ==
    {[status |-> "done"], [status |-> "waiting", assignee |-> " bob "],
     [status |-> "closed"], [status |-> "Done", assignee |-> "bob"],
     [assignee |-> "amy"], [assignee |-> ""], <<>>}

InitialMetaFiles ==
    {NoFile, Unparsable, MetaFile("escalated", "amy"), MetaFile("closed", " amy"),
     MetaFile("waiting", "")}

InitMeta ==
    /\ CoreIdle
    /\ \E files \in [MetaFolders -> InitialMetaFiles] : metaapi = MetaStart(files)
    /\ OthersIdle({"metaapi"})

\* PATCH up to open(meta_path, "w"): 404, 400, or the file is opened and
\* truncated with the patched meta still to be written
PatchBegin(key, data) ==
    /\ metaapi.patch.pc \in {"idle", "responded"}
    /\ LET p == [metaapi.patch EXCEPT !.key = key, !.data = data, !.pc = "responded"]
       IN  IF key \notin DOMAIN metaapi.files
           THEN metaapi' = [metaapi EXCEPT !.patch = [p EXCEPT !.response = ErrorResponse(404)]]
           ELSE IF DOMAIN data = {}
           THEN metaapi' = [metaapi EXCEPT !.patch = [p EXCEPT !.response = ErrorResponse(400)]]
           ELSE IF InvalidStatus(data)
           THEN metaapi' = [metaapi EXCEPT !.patch = [p EXCEPT !.response = ErrorResponse(400)]]
           ELSE metaapi' = [metaapi EXCEPT
                    !.files[key] = Unparsable,
                    !.patch = [p EXCEPT !.pc = "dump", !.response = NoResponse,
                                        !.meta = PatchedMeta(read_meta(metaapi.files[key]), data)]]
    /\ UNCHANGED core
    /\ OthersUnchanged({"metaapi"})

\* json.dump(meta, f) and the response
PatchDump ==
    /\ metaapi.patch.pc = "dump"
    /\ LET p == metaapi.patch
       IN  metaapi' = [metaapi EXCEPT
               !.files[p.key] = MetaFile(p.meta.status, p.meta.assignee),
               !.patch = [p EXCEPT !.pc = "responded", !.response = MetaResponse(p.meta)]]
    /\ UNCHANGED core
    /\ OthersUnchanged({"metaapi"})

\* GET
GetMeta(key) ==
    /\ metaapi' = [metaapi EXCEPT !.get =
           [key |-> key,
            response |-> IF key \notin DOMAIN metaapi.files THEN ErrorResponse(404)
                         ELSE MetaResponse(read_meta(metaapi.files[key]))]]
    /\ UNCHANGED core
    /\ OthersUnchanged({"metaapi"})

NextMeta ==
    \/ \E key \in MetaRequestKeys : \E data \in PatchBodies : PatchBegin(key, data)
    \/ PatchDump
    \/ \E key \in MetaRequestKeys : GetMeta(key)

SpecMeta == InitMeta /\ [][NextMeta]_vars
-----------------------------------------------------------------------------
(* A chat request served by _stream_gemini, one event at a time              *)

ChatMessages ==
    {<<>>,
     <<[role |-> "user", content |-> "why"]>>,
     <<[role |-> "user", content |-> "why"], [role |-> "assistant", content |-> "so"],
       [role |-> "user", content |-> "and"]>>}

TextLengths == {0, 5, chunk_size, chunk_size + 1}

CallLists == {<<"search_workspace">>, <<"drop_tables", "fetch_jira_ticket">>}

ModelResponses ==
    {TextResponse(n) : n \in TextLengths} \cup {CallsResponse(calls) : calls \in CallLists}
        \cup {RaisedResponse}

\* genai.configure, GenerativeModel and start_chat: all pass, or one raises
Setups == {"ok", "Gemini config error", "Gemini model init error", "Chat session error"}

InitChat ==
    /\ CoreIdle
    /\ \E messages \in ChatMessages : chat = ChatStart(messages)
    /\ OthersIdle({"chat"})

\* _stream_gemini up to the loop: an 'error' event when the set-up raises;
\* messages[-1] raises IndexError for an empty list, outside every try
ChatBegin(setup) ==
    /\ chat.pc = "idle"
    /\ IF setup # "ok"
       THEN chat' = [chat EXCEPT !.pc = "returned",
                                 !.events = Append(chat.events, Event("error", None))]
       ELSE IF chat.messages = <<>>
       THEN chat' = [chat EXCEPT !.pc = "IndexError"]
       ELSE chat' = [chat EXCEPT !.pc = "send"]
    /\ UNCHANGED core
    /\ OthersUnchanged({"chat"})

\* one turn up to its first event: send_message, then the text and 'done', or
\* 'error' for an exception, or the function calls of the response
Send(response) ==
    /\ chat.pc = "send"
    /\ chat.turn < max_tool_turns
    /\ LET s == [chat EXCEPT !.sent = chat.sent + 1]
       IN  IF response.kind = "raises"
           THEN chat' = [s EXCEPT !.pc = "returned",
                                  !.events = Append(chat.events, Event("error", None))]
           ELSE IF response.kind = "text"
           THEN chat' = [s EXCEPT !.pc = "returned",
                                  !.events = chat.events \o TextChunks(response.length)
                                                 \o <<Event("done", None)>>]
           ELSE chat' = [s EXCEPT !.pc = "tool_start", !.fn_calls = response.calls,
                                  !.c = 1, !.fn_response_parts = <<>>]
    /\ UNCHANGED core
    /\ OthersUnchanged({"chat"})

ToolStart ==
    /\ chat.pc = "tool_start"
    /\ chat' = [chat EXCEPT !.pc = "tool_end",
                            !.events = Append(chat.events,
                                              Event("tool_start", chat.fn_calls[chat.c]))]
    /\ UNCHANGED core
    /\ OthersUnchanged({"chat"})

\* the tool is run, its exception caught, and 'tool_end' sent
ToolEnd ==
    /\ chat.pc = "tool_end"
    /\ \E raises \in BOOLEAN :
           LET name == chat.fn_calls[chat.c]
               s == [chat EXCEPT
                        !.events = Append(chat.events, Event("tool_end", name)),
                        !.fn_response_parts = Append(chat.fn_response_parts,
                            [name |-> name, result |-> ToolResult(name, raises)])]
           IN  IF chat.c < Len(chat.fn_calls)
               THEN chat' = [s EXCEPT !.pc = "tool_start", !.c = chat.c + 1]
               ELSE chat' = [s EXCEPT !.pc = "send", !.turn = chat.turn + 1]
    /\ UNCHANGED core
    /\ OthersUnchanged({"chat"})

\* the loop is left after max_tool_turns turns
Exhausted ==
    /\ chat.pc = "send"
    /\ chat.turn >= max_tool_turns
    /\ chat' = [chat EXCEPT !.pc = "returned",
                            !.events = Append(chat.events, Event("error", None))]
    /\ UNCHANGED core
    /\ OthersUnchanged({"chat"})

NextChat ==
    \/ \E setup \in Setups : ChatBegin(setup)
    \/ \E response \in ModelResponses : Send(response)
    \/ ToolStart
    \/ ToolEnd
    \/ Exhausted

SpecChat == InitChat /\ [][NextChat]_vars
-----------------------------------------------------------------------------
(* get_chat_provider over the environments of the process                    *)

Environments ==
    [ANTHROPIC_API_KEY : {"", "sk-ant"}, GEMINI_API_KEY : {"", "AIza"},
     GEMINI_MODEL : {"gemini-2.0-flash", "gemini-1.5-pro", ""},
     OLLAMA_MODEL : {"", "llama3.1", "mistral:7b", "gpt-oss"}]

\* _check_ollama: not running, or running with the names of its models
OllamaAnswers ==
    {[running |-> FALSE, models |-> <<>>]} \cup
    {[running |-> TRUE, models |-> models] :
        models \in {<<>>, <<"llama3.1:latest">>, <<"nomic-embed-text", "mistral:7b">>,
                    <<"custom-model">>, <<"phi3:mini", "qwen2.5:7b", "mistral:7b">>}}

InitProvider ==
    /\ CoreIdle
    /\ \E env \in Environments : \E ollama \in OllamaAnswers :
           provider = ProviderStart(env, ollama)
    /\ OthersIdle({"provider"})

GetChatProvider ==
    /\ provider.result = NoProvider
    /\ provider' = [provider EXCEPT !.result = get_chat_provider(provider.env, provider.ollama)]
    /\ UNCHANGED core
    /\ OthersUnchanged({"provider"})

NextProvider == GetChatProvider

SpecProvider == InitProvider /\ [][NextProvider]_vars
-----------------------------------------------------------------------------
(* A run of bulk_archive.py, one ticket at a time                            *)

Limits == {-1, 0, 2, 5, 500}

Totals == {0, 1, 3, 7, 150, 2500}

BulkArgs == [limit : Limits, yes : BOOLEAN]

BulkJira ==
    [total : Totals, created : {0, 4}, count_raises : BOOLEAN, honours : BOOLEAN,
     http_error : BOOLEAN]

\* what is typed at the prompt; "EOF" for an input that is closed (with --yes
\* there is no prompt)
Answers == {"n", " N", "no", "EOF"}

InitBulk ==
    /\ CoreIdle
    /\ \E args \in BulkArgs : \E jira \in BulkJira :
           \E answer \in (IF args.yes THEN {"EOF"} ELSE Answers) :
               bulk = BulkStart(args, jira, answer)
    /\ OthersIdle({"bulk"})

\* main up to the loop: the count, the safety limit, the prompt, the search
BulkBegin ==
    /\ bulk.pc = "idle"
    /\ LET estimated_count == count_issues(bulk.jira.total, bulk.jira.count_raises)
           b == [bulk EXCEPT !.estimated_count = estimated_count]
           found == search_issues(bulk.jira.total + bulk.jira.created, Min({page_size, bulk.args.limit}),
                                  bulk.jira.honours, bulk.jira.http_error)
           issues == ApplyLimit(found, bulk.args.limit)
       IN  IF estimated_count < 0 THEN bulk' = [b EXCEPT !.pc = "aborted"]
           ELSE IF estimated_count > bulk.args.limit THEN bulk' = [b EXCEPT !.pc = "aborted"]
           ELSE IF ~bulk.args.yes /\ bulk.answer # "EOF" /\ Refuses(bulk.answer)
           THEN bulk' = [b EXCEPT !.pc = "aborted"]
           ELSE IF issues = 0 THEN bulk' = [b EXCEPT !.pc = "none found"]
           ELSE bulk' = [b EXCEPT !.pc = "loop", !.issues = issues]
    /\ UNCHANGED core
    /\ OthersUnchanged({"bulk"})

\* one ticket: archive_issue returns True or False
BulkArchive ==
    /\ bulk.pc = "loop"
    /\ bulk.i < bulk.issues
    /\ \E archived \in BOOLEAN :
           bulk' = [bulk EXCEPT !.i = bulk.i + 1,
                                !.success = IF archived THEN bulk.success + 1 ELSE bulk.success,
                                !.failed = IF archived THEN bulk.failed ELSE bulk.failed + 1]
    /\ UNCHANGED core
    /\ OthersUnchanged({"bulk"})

BulkDone ==
    /\ bulk.pc = "loop"
    /\ bulk.i >= bulk.issues
    /\ bulk' = [bulk EXCEPT !.pc = "done"]
    /\ UNCHANGED core
    /\ OthersUnchanged({"bulk"})

NextBulk == BulkBegin \/ BulkArchive \/ BulkDone

SpecBulk == InitBulk /\ [][NextBulk]_vars
-----------------------------------------------------------------------------
(* Claims about detect_product_area, checked under SpecClassify             *)

Classified == area # Pending

\* the rules, by table position, that have a pattern matching the text
MatchingRules == {i \in 1..Len(COMPILED_AREA_RULES) : RuleMatches(i, text, Lower(text))}

RuleIndex(key) == CHOOSE i \in 1..Len(PRODUCT_AREA_RULES) : PRODUCT_AREA_RULES[i].key = key

\* "org", white space or none, "deletion", white space or none, "request",
\* in any letter case, somewhere in the text
HasOrgDeletionRequest ==
    LET lt == Lower(text)
        at(w, i) == i >= 1 /\ i + Len(w) - 1 <= Len(lt) /\ SubSeq(lt, i, i + Len(w) - 1) = w
        blank(i, j) == \A k \in i..j : Ch(lt, k) \in Space
    IN  \E i \in 1..Len(lt) :
            /\ at("org", i)
            /\ \E j \in (i + 3)..Len(lt) :
                  /\ at("deletion", j) /\ blank(i + 3, j - 1)
                  /\ \E k \in (j + 8)..Len(lt) :
                        at("request", k) /\ blank(j + 8, k - 1)

\* C1: first match wins. Of a text that does not trigger the deletion-request
\* short-circuit, the area is the key of the earliest rule of the table that has a
\* matching pattern, whatever later rules match too.
C1_FirstMatchWins ==
    (Classified /\ ~HasOrgDeletionRequest /\ MatchingRules # {})
        => area = PRODUCT_AREA_RULES[Min(MatchingRules)].key

\* a text with the cspm and the vulnerability keyword, classified as cspm
C1_Witness ==
    /\ Classified
    /\ ~HasOrgDeletionRequest
    /\ {RuleIndex("cspm"), RuleIndex("vm")} \subseteq MatchingRules
    /\ Min(MatchingRules) = RuleIndex("cspm")
    /\ area = "cspm"

\* C5: a text that contains "org deletion request", in any letter case, is
\* classified "other", also when patterns of other rules match it.
C5_OrgDeletionPrecedence ==
    (Classified /\ Contains(Lower(text), "org deletion request")) => area = "other"

\* "org deletion REQUEST cspm": the cspm rule matches, the area is "other"
C5_Witness ==
    /\ Classified
    /\ Contains(Lower(text), "org deletion request")
    /\ RuleIndex("cspm") \in MatchingRules
    /\ area = "other"

\* C6 as stated: a text that contains the phrase "organization deletion request",
\* in any letter case, is classified "other" whatever rules match it.
C6_OrganizationPhrase ==
    (Classified /\ Contains(Lower(text), "organization deletion request")) => area = "other"

\* C6 as amended: the short-circuit is on "org" directly followed by optional white
\* space, "deletion", optional white space and "request"; a text that holds the
\* phrase only spelled "organization deletion request" is classified by the rule
\* table like any other text.
C6_OrgPhraseOnly ==
    Classified =>
        /\ HasOrgDeletionRequest => area = "other"
        /\ (/\ Contains(Lower(text), "organization deletion request")
            /\ ~HasOrgDeletionRequest
            /\ MatchingRules # {})
              => area = PRODUCT_AREA_RULES[Min(MatchingRules)].key

\* "Organization deletion REQUEST cspm" is classified cspm
C6_Witness ==
    /\ Classified
    /\ Contains(Lower(text), "organization deletion request")
    /\ ~HasOrgDeletionRequest
    /\ area = "cspm"

\* C7: the classifier returns an area key for every text; the empty text and every
\* text that no pattern of any rule matches is classified "other".
C7_FallbackTotality ==
    Classified =>
        /\ area \in {PRODUCT_AREA_RULES[i].key : i \in 1..Len(PRODUCT_AREA_RULES)}
        /\ text = "" => area = "other"
        /\ MatchingRules = {} => area = "other"

\* a text that is not empty, matches nothing and is classified "other"
C7_Witness ==
    /\ Classified
    /\ text # ""
    /\ MatchingRules = {}
    /\ ~HasOrgDeletionRequest
    /\ area = "other"


\* the rule table as data: every rule but "other" has a group that is a key of
\* the group table and at least one pattern, no two rules have the same key, and
\* "other" is the last rule and has no pattern; the compiled table has the same
\* keys and as many patterns, rule by rule
RuleTableWellFormed ==
    LET n == Len(PRODUCT_AREA_RULES)
    IN  /\ n >= 1
        /\ PRODUCT_AREA_RULES[n].key = "other"
        /\ PRODUCT_AREA_RULES[n].patterns = <<>>
        /\ \A i \in 1..(n - 1) :
              /\ PRODUCT_AREA_RULES[i].key # "other"
              /\ PRODUCT_AREA_RULES[i].group # None
              /\ PRODUCT_AREA_RULES[i].group \in DOMAIN PRODUCT_AREA_GROUPS
              /\ Len(PRODUCT_AREA_RULES[i].patterns) >= 1
        /\ \A i, j \in 1..n :
              i # j => PRODUCT_AREA_RULES[i].key # PRODUCT_AREA_RULES[j].key
        /\ Len(COMPILED_AREA_RULES) = n
        /\ \A i \in 1..n :
              /\ COMPILED_AREA_RULES[i].key = PRODUCT_AREA_RULES[i].key
              /\ Len(COMPILED_AREA_RULES[i].patterns) = Len(PRODUCT_AREA_RULES[i].patterns)

\* C18: the rule table is well-formed, and the fallback rule is never selected by
\* a pattern: a text is classified "other" only when it triggers the
\* deletion-request short-circuit or when no pattern of any rule matches it.
C18_RuleTableWellFormed ==
    /\ RuleTableWellFormed
    /\ Classified =>
          LET matching == MatchingRules
          IN  /\ RuleIndex("other") \notin matching
              /\ area = "other" => (HasOrgDeletionRequest \/ matching = {})

\* "other" by the short-circuit alone: no pattern of any rule matches the text
C18_Witness ==
    /\ Classified
    /\ area = "other"
    /\ HasOrgDeletionRequest
    /\ MatchingRules = {}
-----------------------------------------------------------------------------
(* Claims about extract_sources, checked under SpecExtract                  *)

\* the call has returned a list
Returned == sources.exc = None

TypeIndex(key) == CHOOSE k \in 1..Len(SOURCE_TYPES) : SOURCE_TYPES[k].key = key

\* the groups of the returned list, by position, that are of source type key
GroupsOf(key) == {g \in 1..Len(sources.value) : sources.value[g].key = key}

\* the matches in the text of the URL patterns and of the bare patterns of type k
UrlMatchesOf(k) ==
    UNION {LET ms == FindIter(SOURCE_TYPES[k].url_patterns[j], text, Lower(text))
           IN  {ms[i] : i \in 1..Len(ms)} : j \in 1..Len(SOURCE_TYPES[k].url_patterns)}

RefMatchesOf(k) ==
    UNION {LET ms == FindIter(SOURCE_TYPES[k].ref_patterns[j], text, Lower(text))
           IN  {ms[i] : i \in 1..Len(ms)} : j \in 1..Len(SOURCE_TYPES[k].ref_patterns)}

\* the references the URL pass of type k captures in the text
UrlRefsOf(k) ==
    UrlPass(SOURCE_TYPES[k], text, Lower(text), SplitLines(text), 1,
            [refs |-> <<>>, refs_seen |-> {}, exc |-> None]).refs

\* match b lies inside match m
Inside(b, m) == m.start <= b.start /\ b.end <= m.end

\* the bare matches of type k that lie in no URL match of the type
BareOutsideUrls(k) == {b \in RefMatchesOf(k) : \A m \in UrlMatchesOf(k) : ~Inside(b, m)}

\* C2 as stated: extract_sources returns a list for every text and never raises.
C2_ExtractTotal == sources.exc # "TypeError"

\* C3: in a returned group, no entry of the bare pass has a text that is a substring
\* of the url or of the display of a reference the URL pass captured for the type;
\* a key that the text holds only inside one captured URL is in one reference only.
C3_ContainmentSuppression ==
    Returned =>
        \A g \in 1..Len(sources.value) :
            LET refs == sources.value[g].refs
                k    == TypeIndex(sources.value[g].key)
                u    == UrlRefsOf(k)
            IN  /\ \A b \in (Len(u) + 1)..Len(refs) : \A r \in 1..Len(u) :
                       /\ ~Contains(u[r].url, refs[b].display)
                       /\ ~Contains(u[r].display, refs[b].display)
                /\ \A m \in RefMatchesOf(k) :
                       (\E r \in 1..Len(u) : \/ Contains(u[r].url, Group0(text, m))
                                             \/ Contains(u[r].display, Group0(text, m)))
                           => \A b \in (Len(u) + 1)..Len(refs) :
                                  refs[b].display # Group0(text, m)
                /\ (Cardinality(UrlMatchesOf(k)) = 1 /\ BareOutsideUrls(k) = {})
                       => Len(refs) = 1

\* a ticket key inside a captured URL and once more outside of it: one reference
C3_Witness ==
    /\ Returned
    /\ \E g \in GroupsOf("jira") :
         /\ Len(sources.value[g].refs) = 1
         /\ \E b \in BareOutsideUrls(TypeIndex("jira")) :
                Contains(sources.value[g].refs[1].url, Group0(text, b))
    /\ \E m \in UrlMatchesOf(TypeIndex("jira")), b \in RefMatchesOf(TypeIndex("jira")) :
         Inside(b, m)

\* C4: no returned group holds two references with the same (url, display) pair,
\* whichever pass each of the two comes from.
C4_NoDuplicates ==
    Returned =>
        \A g \in 1..Len(sources.value) :
            LET refs == sources.value[g].refs
            IN  \A i, j \in 1..Len(refs) :
                    i < j => <<refs[i].url, refs[i].display>> # <<refs[j].url, refs[j].display>>

\* a URL reference whose pair is the one the bare pass builds for the key, and
\* the key once more as a bare match: still one reference
C4_Witness ==
    /\ Returned
    /\ \E g \in GroupsOf("jira") :
         LET refs == sources.value[g].refs
         IN  /\ Len(refs) = 1
             /\ refs[1].url = RefUrl("jira", refs[1].display)
             /\ Cardinality(UrlMatchesOf(TypeIndex("jira"))) >= 2
             /\ \E b \in BareOutsideUrls(TypeIndex("jira")) :
                    Group0(text, b) = refs[1].display

\* the text of the end-to-end scenario for a ticket key
ScenarioText(ticket) ==
    "See https://datadoghq.atlassian.net/browse/" \o ticket
    \o " for details, also mentioned in " \o ticket
    \o " again and in #security-team channel."

\* C8: the end-to-end scenario yields one tracker reference, with the key as its
\* display, and one chat reference, with display "#security-team" and no URL.
C8_EndToEndScenario ==
    \A ticket \in {"ABC-123", "SCRS-123"} :
        (text = ScenarioText(ticket) /\ sources.exc # Pending) =>
            /\ Returned
            /\ Cardinality(GroupsOf("jira")) = 1
            /\ Cardinality(GroupsOf("slack")) = 1
            /\ \A g \in GroupsOf("jira") :
                 /\ Len(sources.value[g].refs) = 1
                 /\ sources.value[g].refs[1].display = ticket
            /\ \A g \in GroupsOf("slack") :
                 /\ Len(sources.value[g].refs) = 1
                 /\ sources.value[g].refs[1].display = "#security-team"
                 /\ sources.value[g].refs[1].url = None

\* the scenario with a key the tracker's bare pattern matches, scanned
C8_Witness ==
    /\ text = ScenarioText("SCRS-123")
    /\ Returned
    /\ Len(sources.value) = 2
    /\ BareOutsideUrls(TypeIndex("jira")) # {}

\* some URL pattern or bare pattern of type k matches the text
TypeMatches(k) == UrlMatchesOf(k) # {} \/ RefMatchesOf(k) # {}

\* C9: the returned list holds a group for a source type exactly when a reference
\* was captured for it; no group is empty, no type comes twice, and the groups are
\* in the order of the source-type table.
C9_GroupSelectionAndOrder ==
    Returned =>
        /\ \A g \in 1..Len(sources.value) :
             /\ Len(sources.value[g].refs) > 0
             /\ \E k \in 1..Len(SOURCE_TYPES) :
                  /\ sources.value[g].key = SOURCE_TYPES[k].key
                  /\ sources.value[g].label = SOURCE_TYPES[k].label
                  /\ sources.value[g].icon = SOURCE_TYPES[k].icon
        /\ \A g, h \in 1..Len(sources.value) :
             g < h => TypeIndex(sources.value[g].key) < TypeIndex(sources.value[h].key)
        /\ \A k \in 1..Len(SOURCE_TYPES) :
             (GroupsOf(SOURCE_TYPES[k].key) # {}) <=> TypeMatches(k)

\* the first match of type k in the text
FirstMatch(k) == Min({m.start : m \in UrlMatchesOf(k) \cup RefMatchesOf(k)})

\* two groups whose types the text references in the other order
C9_Witness ==
    /\ Returned
    /\ \E g, h \in 1..Len(sources.value) :
         /\ g < h
         /\ FirstMatch(TypeIndex(sources.value[h].key))
              < FirstMatch(TypeIndex(sources.value[g].key))
    /\ \E k \in 1..Len(SOURCE_TYPES) : ~TypeMatches(k)

\* where the dedup key of URL reference r of type k first occurs in the text
FirstUrlOccurrence(k, r) ==
    Min({m.start : m \in {n \in UrlMatchesOf(k) :
            \E j \in 1..Len(SOURCE_TYPES[k].url_patterns) :
               /\ n \in {FindIter(SOURCE_TYPES[k].url_patterns[j], text, Lower(text))[i] :
                           i \in 1..Len(FindIter(SOURCE_TYPES[k].url_patterns[j], text, Lower(text)))}
               /\ RStrip(Group0(text, n), ")") = r.url
               /\ UrlDisplay(SOURCE_TYPES[k].key, SOURCE_TYPES[k].url_patterns[j],
                             text, Lower(text), n, r.url) = r.display}})

\* where the text of bare reference r of type k first occurs as a bare match
FirstBareOccurrence(k, r) ==
    Min({m.start : m \in {n \in RefMatchesOf(k) : Group0(text, n) = r.display}})

\* C10: in a returned group the references of the URL pass come first, in the
\* order in which their dedup keys first occur in the text, and the references of
\* the bare pass follow, in the order of their first occurrence in the text.
C10_OrderPreserved ==
    Returned =>
        \A g \in 1..Len(sources.value) :
            LET refs == sources.value[g].refs
                k    == TypeIndex(sources.value[g].key)
                u    == UrlRefsOf(k)
            IN  /\ Len(u) <= Len(refs)
                /\ SubSeq(refs, 1, Len(u)) = u
                /\ \A i, j \in 1..Len(u) :
                     i < j => FirstUrlOccurrence(k, refs[i]) < FirstUrlOccurrence(k, refs[j])
                /\ \A i, j \in (Len(u) + 1)..Len(refs) :
                     i < j => FirstBareOccurrence(k, refs[i]) < FirstBareOccurrence(k, refs[j])

\* a group with two references of each pass, and a bare reference that the text
\* holds before the first URL
C10_Witness ==
    /\ Returned
    /\ \E g \in 1..Len(sources.value) :
         LET refs == sources.value[g].refs
             k    == TypeIndex(sources.value[g].key)
             u    == UrlRefsOf(k)
         IN  /\ Len(u) >= 2
             /\ Len(refs) >= Len(u) + 2
             /\ FirstBareOccurrence(k, refs[Len(u) + 1]) < FirstUrlOccurrence(k, refs[1])

-----------------------------------------------------------------------------
(* Claims about displays, bare references and contexts, checked under       *)
(* SpecDocuments                                                             *)

\* the text of at most LookBack characters that ends right before match m
WindowBefore(m) ==
    SubSeq(text, IF m.start - LookBack > 1 THEN m.start - LookBack ELSE 1, m.start - 1)

\* the label of the markdown link syntax a window ends with, None when it ends
\* otherwise: the window ends with "(" (one final newline aside), white space
\* aside the "(" follows a "]", and the label runs from the leftmost "[" that has
\* at least one character and no "]" up to that "]"
LabelBefore(w) ==
    LET n == IF Len(w) >= 1 /\ Ch(w, Len(w)) = "\n" THEN Len(w) - 1 ELSE Len(w)
        nonspace == {j \in 1..(n - 1) : Ch(w, j) \notin Space}
    IN  IF n < 1 \/ nonspace = {} THEN None
        ELSE IF Ch(w, n) # "(" \/ Ch(w, Max(nonspace)) # "]" THEN None
        ELSE LET j     == Max(nonspace)
                 close == {x \in 1..(j - 1) : Ch(w, x) = "]"}
                 from  == IF close = {} THEN 1 ELSE Max(close) + 1
                 opens == {i \in from..(j - 2) : Ch(w, i) = "["}
             IN  IF opens = {} THEN None ELSE SubSeq(w, Min(opens) + 1, j - 1)

\* the part of a URL after its last "/"
KeyOf(url) ==
    LET slashes == {i \in 1..Len(url) : Ch(url, i) = "/"}
    IN  SubSeq(url, Max(slashes) + 1, Len(url))

\* the display the precedence gives URL match m of source type k
ExpectedDisplay(k, m) ==
    LET label == LabelBefore(WindowBefore(m))
    IN  IF label # None THEN label
        ELSE IF SOURCE_TYPES[k].key = "jira" THEN KeyOf(Group0(text, m))
        ELSE Group0(text, m)

C12_BareReferenceUrl ==
    Returned =>
        \A g \in 1..Len(sources.value) :
            LET refs == sources.value[g].refs
                k    == TypeIndex(sources.value[g].key)
                u    == UrlRefsOf(k)
                bare == {Group0(text, m) : m \in RefMatchesOf(k)}
            IN  \A b \in (Len(u) + 1)..Len(refs) :
                    /\ refs[b].display \in bare
                    /\ refs[b].url = IF sources.value[g].key = "jira"
                                     THEN "https://datadoghq.atlassian.net/browse/"
                                              \o refs[b].display
                                     ELSE None

\* a bare ticket key and a bare channel handle in one text
C12_Witness ==
    /\ Returned
    /\ \E g \in GroupsOf("jira") :
         LET refs == sources.value[g].refs
         IN  /\ Len(UrlRefsOf(TypeIndex("jira"))) < Len(refs)
             /\ refs[Len(refs)].url =
                    "https://datadoghq.atlassian.net/browse/" \o refs[Len(refs)].display
    /\ \E g \in GroupsOf("slack") :
         LET refs == sources.value[g].refs
         IN  /\ Len(UrlRefsOf(TypeIndex("slack"))) < Len(refs)
             /\ refs[Len(refs)].url = None

\* the literal the context of reference r of group g was computed for: the URL
\* matched for a reference of the URL pass, the text matched for one of the bare
\* pass
NeedleOf(g, r) ==
    LET refs == sources.value[g].refs
    IN  IF r <= Len(UrlRefsOf(TypeIndex(sources.value[g].key)))
        THEN refs[r].url ELSE refs[r].display

\* the lines of the text that hold the literal
LinesHolding(needle) ==
    LET lines == SplitLines(text)
    IN  {i \in 1..Len(lines) : Contains(lines[i], needle)}

\* the references returned, as (group, position) pairs
ReturnedRefs ==
    UNION {{<<g, r>> : r \in 1..Len(sources.value[g].refs)} :
               g \in 1..Len(sources.value)}

Ellipsis == "..."

\* C13: a context has at most ContextMax characters and the ellipsis; a cleaned
\* line of at most ContextMax characters is the context whole, a longer one is
\* cut and the context ends with the ellipsis.
C13_ContextTruncation ==
    Returned =>
        \A p \in ReturnedRefs :
            LET needle == NeedleOf(p[1], p[2])
                ctx    == sources.value[p[1]].refs[p[2]].context
                hits   == LinesHolding(needle)
                c      == Cleaned(SplitLines(text)[Min(hits)], needle)
                kept   == Len(ctx) - Len(Ellipsis)
            IN  /\ Len(ctx) <= ContextMax + Len(Ellipsis)
                /\ hits # {} =>
                     /\ Len(c) <= ContextMax => ctx = c
                     /\ Len(c) > ContextMax =>
                          /\ kept >= 0
                          /\ SubSeq(ctx, kept + 1, Len(ctx)) = Ellipsis
                          /\ SubSeq(ctx, 1, kept) = SubSeq(c, 1, kept)

\* a cleaned line of more than ContextMax characters, cut
C13_Witness ==
    /\ Returned
    /\ \E p \in ReturnedRefs :
         LET needle == NeedleOf(p[1], p[2])
             ctx    == sources.value[p[1]].refs[p[2]].context
             hits   == LinesHolding(needle)
         IN  /\ hits # {}
             /\ Len(Cleaned(SplitLines(text)[Min(hits)], needle)) > ContextMax
             /\ SubSeq(ctx, Len(ctx) - 2, Len(ctx)) = Ellipsis

\* C14 as stated: the context of a reference never holds the literal matched,
\* whenever a line of the text holds it.
C14_ContextExcludesNeedle ==
    Returned =>
        \A p \in ReturnedRefs :
            LinesHolding(NeedleOf(p[1], p[2])) # {}
                => ~Contains(sources.value[p[1]].refs[p[2]].context, NeedleOf(p[1], p[2]))

\* no pattern of any source type matches in the text
ReferenceFree == \A k \in 1..Len(SOURCE_TYPES) : ~TypeMatches(k)

\* C15: for the empty text, and for a text no pattern matches in, the call
\* returns the empty list.
C15_EmptyWhenReferenceFree ==
    (sources # NoOutcome /\ (text = "" \/ ReferenceFree))
        => sources = [exc |-> None, value |-> <<>>]

\* a text that is not empty and holds no reference, scanned
C15_Witness ==
    /\ text # ""
    /\ ReferenceFree
    /\ sources = [exc |-> None, value |-> <<>>]

\* the line of the text that position pos is in
LineOf(pos) == 1 + Cardinality({i \in 1..(pos - 1) : Ch(text, i) = "\n"})

\* C20: the context of a reference is the one of the first line of the text that
\* holds the literal matched, and there is such a line; for a literal no line
\* holds the context is empty.
C20_FirstContainingLine ==
    /\ get_context_for_match(SplitLines(text), text \o "x") = ""
    /\ Returned =>
         \A p \in ReturnedRefs :
             LET needle == NeedleOf(p[1], p[2])
                 hits   == LinesHolding(needle)
             IN  /\ hits # {}
                 /\ sources.value[p[1]].refs[p[2]].context
                        = CleanLine(SplitLines(text)[Min(hits)], needle)

\* a reference whose literal is matched on a later line only than the line its
\* context is of
C20_Witness ==
    /\ Returned
    /\ \E p \in ReturnedRefs :
         LET needle == NeedleOf(p[1], p[2])
             hits   == LinesHolding(needle)
             k      == TypeIndex(sources.value[p[1]].key)
         IN  /\ hits # {}
             /\ \A m \in UrlMatchesOf(k) \cup RefMatchesOf(k) :
                    Group0(text, m) = needle => LineOf(m.start) > Min(hits)
             /\ sources.value[p[1]].refs[p[2]].context
                    = CleanLine(SplitLines(text)[Min(hits)], needle)
             /\ \E i \in hits : i > Min(hits)
-----------------------------------------------------------------------------
(* Claims about repeated and interleaved calls, checked under SpecThreads    *)

\* thread th holds the outcome of a call that has ended
Done(th) == frames[th].pc = "idle" /\ frames[th].fn # "none"

\* C16: two calls of detect_product_area with the same text return the same
\* area, and two calls of extract_sources with the same text have the same
\* outcome, group by group and reference by reference, whatever calls the two
\* threads made before and whatever call ran between the steps of the two.
C16_Determinism ==
    \A a, b \in Threads :
        (/\ Done(a) /\ Done(b)
         /\ frames[a].fn = frames[b].fn
         /\ frames[a].text = frames[b].text)
            => frames[a].result = frames[b].result

\* two threads hold the same list of references for the same text, and the call
\* of one of them ran while the other thread was in a call for another text
C16_Witness ==
    \E a, b \in Threads :
        /\ a # b
        /\ Done(a) /\ Done(b)
        /\ frames[a].fn = "extract" /\ frames[b].fn = "extract"
        /\ frames[a].text = frames[b].text
        /\ frames[a].result = frames[b].result
        /\ frames[a].result.exc = None
        /\ Len(frames[a].result.value) >= 1
        /\ frames[b].met

\* what each request returns when no other call runs
RunAlone ==
    [r \in ({"classify"} \X ClassifyRequests) \cup ({"extract"} \X ExtractRequests) |->
        IF r[1] = "classify" THEN [exc |-> None, value |-> detect_product_area(r[2])]
        ELSE extract_sources(r[2])]

\* C17: with the steps of the calls of several threads interleaved in any way,
\* every call has the outcome it has when run alone, and the tables bound at
\* import are, at every step, the ones bound at import.
C17_ConcurrencySafety ==
    /\ tables = StaticTables
    /\ \A th \in Threads :
          Done(th) => frames[th].result = RunAlone[<<frames[th].fn, frames[th].text>>]

\* a call of extract_sources that returned references, and ran while the other
\* thread was inside a call for another text and is still inside it, with
\* references of its own collected
C17_Witness ==
    \E a, b \in Threads :
        /\ a # b
        /\ Done(a)
        /\ frames[a].fn = "extract"
        /\ frames[a].met
        /\ frames[a].result.exc = None
        /\ Len(frames[a].result.value) >= 1
        /\ frames[b].fn = "extract"
        /\ frames[b].pc = "match"
        /\ frames[b].text # frames[a].text
        /\ Len(frames[b].st.refs) >= 1
        /\ frames[b].met

-----------------------------------------------------------------------------
(* The claim about the import of a rule table written with a slip, checked   *)
(* under SpecLoad                                                            *)

\* a rule table with a rule that has patterns and no group, or with two rules of
\* one key
Misconfigured(rules) ==
    \/ \E i \in 1..Len(rules) : rules[i].group = None /\ Len(rules[i].patterns) >= 1
    \/ \E i, j \in 1..Len(rules) : i # j /\ rules[i].key = rules[j].key

\* C19 as stated: the import of a misconfigured rule table fails, and no text is
\* ever classified over a misconfigured rule table.
C19_FailFastValidation ==
    Misconfigured(tables.rules) => (tables.status # "loaded" /\ area = Pending)
-----------------------------------------------------------------------------
(* The claim about bare ticket keys, checked under SpecExtract               *)

\* C21 as stated: for every ticket key the bare pattern matches in the text, the
\* JIRA group returned holds a reference of exactly that key: one that displays
\* the key or whose url ends in "/" and the key.
C21_NoTicketKeyLost ==
    Returned =>
        \A m \in RefMatchesOf(TypeIndex("jira")) :
            \E g \in GroupsOf("jira") : \E r \in 1..Len(sources.value[g].refs) :
                \/ sources.value[g].refs[r].display = Group0(text, m)
                \/ KeyOf(sources.value[g].refs[r].url) = Group0(text, m)

-----------------------------------------------------------------------------
(* The claims about the sync request, checked under SpecSync                 *)

\* the SCRS keys of the active investigations
ActiveScrs == Range(ScrsKeys(get_investigations(sync.listing)))

\* the folders of the listing that are no longer there
RemovedFolders == Range(sync.listing) \ sync.folders

KeysIn(list) == {list[i].key : i \in 1..Len(list)}

SyncOver == sync.pc \in {"responded", "SystemExit"}

\* C22 as stated: a folder is removed only if its key starts with "SCRS-", its
\* issue was fetched with a status that is in DONE_STATUSES once lower-cased and
\* stripped, and the archive file of the issue was written before; when the
\* request is over, the folder of every key whose fetch or whose archiving failed
\* is in place and the key is reported in errors.
C22_SyncKeepsUnarchivedWork ==
    /\ \A key \in RemovedFolders :
           /\ StartsWith(key, "SCRS-")
           /\ sync.jira[key].kind = "issue"
           /\ Strip(Lower(sync.jira[key].status), Space) \in DONE_STATUSES
           /\ key \in sync.archive
    /\ SyncOver =>
           \A key \in ActiveScrs :
               (sync.jira[key].kind # "issue" \/ key \in sync.archive_failed) =>
                   /\ key \in sync.folders
                   /\ key \in KeysIn(sync.errors)

\* the number of places key has in the four lists of the response
Places(r, key) ==
    Cardinality({i \in 1..Len(r.archived) : r.archived[i].key = key})
    + Cardinality({i \in 1..Len(r.still_active) : r.still_active[i].key = key})
    + Cardinality({i \in 1..Len(r.errors) : r.errors[i].key = key})
    + Cardinality({i \in 1..Len(r.skipped) : r.skipped[i] = key})

\* C26: in the response every active investigation key has exactly one place in
\* archived, still_active, errors and skipped, in one of the first three when it
\* starts with "SCRS-" and in skipped otherwise; checked is the number of SCRS
\* keys and the sum of the lengths of archived, still_active and errors.
C26_SyncPartition ==
    sync.pc = "responded" =>
        LET r == sync.response
        IN  /\ \A key \in Range(get_investigations(sync.listing)) :
                   /\ Places(r, key) = 1
                   /\ StartsWith(key, "SCRS-") <=> key \notin Range(r.skipped)
            /\ r.checked = Cardinality(ActiveScrs)
            /\ r.checked = Len(r.archived) + Len(r.still_active) + Len(r.errors)

C26_Witness ==
    /\ sync.pc = "responded"
    /\ sync.response.archived # <<>>
    /\ sync.response.errors # <<>>
    /\ sync.response.skipped # <<>>

-----------------------------------------------------------------------------
(* The claims about the watcher, checked under SpecWatch and SpecWatchLive   *)

Increasing(events) == \A i, j \in 1..Len(events) : i < j => events[i] < events[j]

\* C23 as stated: on the open investigation stream, every change the watcher
\* records for the key after the stream started is eventually followed by a
\* 'changed' event with a ts that is at least the timestamp recorded, and the ts
\* of the events of the stream are strictly increasing.
C23_LiveReloadDelivery ==
    /\ [](Increasing(watch.streams["investigation"].events))
    /\ \A t \in 1..MaxTime : (t \in watch.pending) ~> (t \notin watch.pending)

\* what an event is about, read off its path
Below(event) == RelativeTo(event.src_path, INVESTIGATIONS_DIR)

Hidden(event) ==
    Len(Below(event).parts) >= 1 /\ StartsWith(Below(event).parts[1], ".")

TopLevelDirectory(event) ==
    Below(event).exc = None /\ event.is_directory /\ Len(Below(event).parts) = 1

FileInInvestigation(event) ==
    Below(event).exc = None /\ ~event.is_directory /\ Len(Below(event).parts) >= 2

NestedDirectory(event) ==
    Below(event).exc = None /\ event.is_directory /\ Len(Below(event).parts) >= 2

\* the items of the ledger for other keys
Others(ledger, keys) == {item \in ledger : item[1] \notin keys}

\* C27: the watcher's writes set "_list" and the investigation's entry to one
\* timestamp for a top-level directory, and the investigation's entry alone for a
\* file inside an investigation; a nested directory, a path outside the folder
\* and an investigation with a name that starts with "." leave the ledger as it
\* is; the watcher and the streams hold the lock when they write or read.
C27_ChangeLedger ==
    [][LET event == watch'.handler.event
           key == Below(event).parts[1]
           old == watch.ledger
           new == watch'.ledger
       IN  /\ (watch.handler.pc = "locked" /\ watch'.handler.pc = "idle") =>
                  /\ watch.lock = "watcher"
                  /\ \/ /\ TopLevelDirectory(event) /\ ~Hidden(event)
                        /\ {"_list", key} \subseteq LedgerKeys(new)
                        /\ LedgerGet(new, "_list") = LedgerGet(new, key)
                        /\ LedgerGet(new, key) = watch'.handler.now
                        /\ Others(new, {"_list", key}) = Others(old, {"_list", key})
                     \/ /\ FileInInvestigation(event) /\ ~Hidden(event)
                        /\ key \in LedgerKeys(new)
                        /\ LedgerGet(new, key) = watch'.handler.now
                        /\ Others(new, {key}) = Others(old, {key})
           /\ ~(watch.handler.pc = "locked" /\ watch'.handler.pc = "idle") => new = old
           /\ (watch.handler.pc = "idle" /\ watch'.handler # watch.handler) =>
                  ((NestedDirectory(event) \/ Below(event).exc # None \/ Hidden(event))
                      => watch'.handler.pc = "idle")
           /\ ((TopLevelDirectory(event) \/ FileInInvestigation(event)) /\ ~Hidden(event)
                  /\ watch.handler.pc = "idle" /\ watch'.handler # watch.handler)
                  => watch'.handler.pc = "acquire"
           /\ \A s \in StreamIds :
                  (watch.streams[s].pc = "locked" /\ watch'.streams[s].pc # "locked")
                      => watch.lock = s
      ]_vars

C27_Witness ==
    /\ watch.handler.pc = "idle"
    /\ TopLevelDirectory(watch.handler.event) /\ ~Hidden(watch.handler.event)
    /\ LedgerGet(watch.ledger, "_list") = LedgerGet(watch.ledger, "SCRS-1")
    /\ LedgerGet(watch.ledger, "_list") > 1
    /\ watch.streams["list"].events # <<>>

-----------------------------------------------------------------------------
(* The claim about the meta API, checked under SpecMeta                      *)

\* C24: a PATCH with a status that is not in VALID_STATUSES answers 400 and
\* leaves the meta files as they are, with or without an assignee in the body; a
\* PATCH for a missing investigation answers 404 and writes nothing; the status
\* a GET returns is always one of VALID_STATUSES.
C24_MetaUpdate ==
    /\ [](metaapi.get.response.code = 200 =>
              InList(metaapi.get.response.status, VALID_STATUSES))
    /\ [][(metaapi'.patch # metaapi.patch /\ metaapi.patch.pc # "dump") =>
              LET p == metaapi'.patch
              IN  /\ p.key \notin DOMAIN metaapi.files =>
                         /\ p.response.code = 404
                         /\ metaapi'.files = metaapi.files
                  /\ (p.key \in DOMAIN metaapi.files /\ InvalidStatus(p.data)) =>
                         /\ p.response.code = 400
                         /\ metaapi'.files = metaapi.files
         ]_vars

C24_Witness ==
    /\ metaapi.patch.response.code = 400
    /\ InvalidStatus(metaapi.patch.data)
    /\ "assignee" \in DOMAIN metaapi.patch.data
    /\ metaapi.get.response.code = 200
    /\ metaapi.files["SCRS-1"] = MetaFile("done", "bob")

-----------------------------------------------------------------------------
(* The claim about the tool-calling loop, checked under SpecChat             *)

Terminal(event) == event.type \in {"done", "error"}

\* the generator is over: it returned or it raised
StreamOver == chat.pc \in {"returned", "IndexError"}

\* C25 as stated: at most 8 messages are sent to the model, a stream that is over
\* ends with its one terminal event ('done' or 'error'), no event follows a
\* terminal event, and every 'tool_start' is followed at once by the 'tool_end'
\* of the same tool.
C25_ToolLoopBounded ==
    LET events == chat.events
        n == Len(events)
    IN  /\ chat.sent <= 8
        /\ StreamOver => (n > 0 /\ Terminal(events[n]))
        /\ \A i \in 1..n : Terminal(events[i]) => (i = n /\ StreamOver)
        /\ \A i \in 1..n : events[i].type = "tool_start" =>
               IF i = n THEN ~StreamOver
               ELSE events[i + 1] = Event("tool_end", events[i].tool)

-----------------------------------------------------------------------------
(* The claim about the chat provider, checked under SpecProvider             *)

\* C28 as stated: Anthropic with an Anthropic key; otherwise Gemini with a
\* Gemini key; otherwise Ollama when it runs with at least one model; otherwise
\* "none". available is true exactly when the model is not empty, and the model
\* chosen for Ollama is one of the models Ollama reported.
C28_ProviderPriority ==
    provider.result # NoProvider =>
        LET env == provider.env
            ollama == provider.ollama
            r == provider.result
        IN  /\ r.provider =
                   IF env.ANTHROPIC_API_KEY # "" THEN "anthropic"
                   ELSE IF env.GEMINI_API_KEY # "" THEN "gemini"
                   ELSE IF ollama.running /\ Len(ollama.models) >= 1 THEN "ollama"
                   ELSE "none"
            /\ r.available <=> r.model # ""
            /\ r.provider = "ollama" => InList(r.model, ollama.models)

-----------------------------------------------------------------------------
(* The claim about bulk_archive.py, checked under SpecBulk                   *)

\* the tickets archive_issue was called for
Attempted == bulk.i

\* C29: no ticket is archived when the count is -1, when the count exceeds the
\* limit, or when the answer is 'n' (without --yes); otherwise at most --limit
\* tickets are attempted; success + failed is the number of tickets attempted.
C29_BulkArchiveLimit ==
    bulk.pc # "idle" =>
        /\ IF \/ bulk.estimated_count = -1
              \/ bulk.estimated_count > bulk.args.limit
              \/ (~bulk.args.yes /\ bulk.answer = "n")
           THEN Attempted = 0 /\ bulk.issues = 0
           ELSE Attempted <= bulk.args.limit /\ bulk.issues <= bulk.args.limit
        /\ bulk.success + bulk.failed = Attempted

C29_Witness ==
    /\ bulk.pc = "done"
    /\ ~bulk.jira.honours
    /\ bulk.jira.total + bulk.jira.created > bulk.args.limit
    /\ Attempted = bulk.args.limit
    /\ bulk.success > 0
    /\ bulk.failed > 0

-----------------------------------------------------------------------------
(* The claim about the taxonomy tables, checked under SpecClassify           *)

\* the area keys of the two tables
AreaKeys ==
    {tables.rules[i].key : i \in 1..Len(tables.rules)}
        \cup UNION {Range(tables.groups[g].areas) : g \in DOMAIN tables.groups}

\* the groups that list the area among their members
GroupsListing(a) == {g \in DOMAIN tables.groups : InList(a, tables.groups[g].areas)}

\* C30: an area is listed among the members of a group in the group table exactly
\* when the rule of the area has that group; every area but the fallback is in
\* exactly one group, AREA_TO_GROUP has no entry for "other", and the value
\* classify returned has a label in PRODUCT_AREA_LABELS.
C30_TaxonomyTablesAgree ==
    /\ \A a \in AreaKeys : \A g \in DOMAIN tables.groups :
           (g \in GroupsListing(a)) <=>
               (\E i \in 1..Len(tables.rules) :
                    tables.rules[i].key = a /\ tables.rules[i].group = g)
    /\ \A i \in 1..Len(tables.rules) :
           tables.rules[i].key # "other" =>
               Cardinality(GroupsListing(tables.rules[i].key)) = 1
    /\ "other" \notin DOMAIN tables.area_to_group
    /\ \A a \in DOMAIN tables.area_to_group : tables.area_to_group[a] \in GroupsListing(a)
    /\ Classified => area \in DOMAIN tables.labels

C30_Witness ==
    /\ Classified
    /\ area = "other"
    /\ tables.labels[area] = "Other"
    /\ GroupsListing(area) = {}
=============================================================================
